---- MODULE Spec2Model ----
(***************************************************************************)
(* Model of the cytotoxicity-assay scheduling application:                 *)
(*   - the schedule calculator (utils/schedule_utils.py) over the method   *)
(*     catalog (config/settings.py) and the workday oracle                 *)
(*     (utils/calendar_utils.py),                                          *)
(*   - the archive policy and the archive store (utils/data_archive.py),   *)
(*   - the experiment list of a session and its JSON store (app.py),       *)
(*   - the archive file as DataArchiver reads and replaces it, one file    *)
(*     operation at a time (utils/data_archive.py),                        *)
(*   - the notification gate and the scheduler loop (utils/scheduler.py)   *)
(*     over the notification settings (config/settings.py).                *)
(*                                                                         *)
(* Representation of values.  A Python date is the number of days since    *)
(* 2023-01-01 (an ordinal, so date arithmetic is integer arithmetic).  A   *)
(* "YYYY-MM-DD" string is the decimal number YYYYMMDD, so formatting and   *)
(* parsing are real conversions through the civil calendar, a date never   *)
(* equals a string, and strings of that fixed width order as numbers do.   *)
(* A datetime is a record of its date and its second of the day.  An       *)
(* "HH:MM" string is the decimal number HHMM; the empty string is 0 where  *)
(* a date string and -1 where a time string is expected.                   *)
(***************************************************************************)
EXTENDS Integers, Sequences, FiniteSets, TLC

VARIABLES
    \* ---- schedule calculator call (SpecSchedule) ----
    start_date,       \* argument start_date of calculate_experiment_schedule
    method_name,      \* argument method_name
    adjust_workdays,  \* settings["scheduling"]["adjust_workdays"]
    flipped,          \* dates on which the holiday table overrides the weekday rule
    result,           \* what the call returned or raised
    \* ---- archive policy call (SpecPolicy) ----
    pol_experiments,  \* argument experiments of get_archivable_experiments
    pol_threshold,    \* argument archive_threshold_days
    pol_result,       \* the returned pair of lists
    \* ---- application (Spec) ----
    today,            \* date.today()
    experiments,      \* st.session_state.experiments
    store,            \* content of data/experiments.json (string-dated records)
    archive,          \* content of data/archive/archived_experiments.json.gz
    created,          \* number of records created so far (the last uid given)
    faults,           \* number of file operations that have failed so far
    lastOp,           \* the handler that ran last and what it saw and reported
    \* ---- archive file operations (SpecArchiveFile) ----
    archive_file,     \* data/archive/archived_experiments.json.gz on disk
    temp_file,        \* temp_archive_<time>.json.gz on disk
    quarantine,       \* contents of the corrupted_archive_<time>.json.gz files
    file_pc,          \* where the running save_archived_experiments call stands
    file_call,        \* the DataArchiver call made last: what it saw and returned
    existing_archived,\* the list archive_experiments got from load_archived_experiments
    appended,         \* number of records appended to archives so far
    \* ---- notification gate and scheduler (SpecGate, SpecNotify) ----
    settings,         \* the "notification" section of the settings file
    now,              \* datetime.now()
    start_time,       \* NotificationScheduler.start_time, when the attribute is set
    gate,             \* the evaluations of the gate made so far
    loop,             \* the thread of _run_scheduler: where it stands
    manual,           \* the request thread of send_manual_notification
    sends,            \* the transmissions of the daily report, in order of start
    experiments_data, \* NotificationScheduler.experiments_data
    \* ---- the daily report (SpecReport) ----
    report,           \* one call of send_daily_report: its inputs, messages and result
    \* ---- browser sessions (SpecSessions) ----
    sessions,         \* st.session_state of each session
    \* ---- views of the list (SpecViews) ----
    view,             \* the view computed last, with the list and the day it was computed for
    \* ---- start and stop of the scheduler (SpecLifecycle) ----
    running,          \* NotificationScheduler.running
    stop_event,       \* NotificationScheduler.stop_event is set
    threads,          \* the threads of _run_scheduler created so far: where each stands
    \* ---- the scheduler's view of the list (SpecSync) ----
    scheduler_started,\* st.session_state.scheduler_started
    aliased           \* experiments_data is the list object of st.session_state.experiments

vars == <<start_date, method_name, adjust_workdays, flipped, result,
          pol_experiments, pol_threshold, pol_result,
          today, experiments, store, archive, created, faults, lastOp,
          archive_file, temp_file, quarantine, file_pc, file_call,
          existing_archived, appended,
          settings, now, start_time, gate, loop, manual, sends, experiments_data,
          report, sessions, view, running, stop_event, threads,
          scheduler_started, aliased>>

schedVars == <<start_date, method_name, adjust_workdays, flipped, result>>
polVars == <<pol_experiments, pol_threshold, pol_result>>
appVars == <<today, experiments, store, archive, created, faults, lastOp>>
fileVars == <<archive_file, temp_file, quarantine, file_pc, file_call,
              existing_archived, appended>>

notifyVars == <<settings, now, start_time, gate, loop, manual, sends, experiments_data>>

\* the variables of the calculator, the policy and the application
coreVars == <<schedVars, polVars, appVars>>

reportVars == <<report>>

sessionVars == <<sessions>>

viewVars == <<view>>

lifeVars == <<running, stop_event, threads>>

syncVars == <<scheduler_started, aliased>>

\* the variables the calculator, the policy and the application leave alone
extVars ==
    <<fileVars, notifyVars, reportVars, sessionVars, viewVars, lifeVars, syncVars>>

\* the variables the archive file operations leave alone
fileOthers ==
    <<coreVars, notifyVars, reportVars, sessionVars, viewVars, lifeVars, syncVars>>

\* the variables the gate, the scheduler and the manual send leave alone
notifyOthers ==
    <<coreVars, fileVars, reportVars, sessionVars, viewVars, lifeVars, syncVars>>

\* the variables a call of send_daily_report leaves alone
reportOthers ==
    <<coreVars, fileVars, notifyVars, sessionVars, viewVars, lifeVars, syncVars>>

\* the variables the sessions leave alone
sessionOthers ==
    <<schedVars, polVars, fileVars, notifyVars, reportVars, viewVars, lifeVars, syncVars>>

(***************************************************************************)
(* Calendar: datetime.date, strftime("%Y-%m-%d") / isoformat, strptime /   *)
(* fromisoformat, timedelta.  Dates before 2023-01-01 are not modelled.     *)
(***************************************************************************)
IsLeap(y) == (y % 4 = 0 /\ y % 100 # 0) \/ y % 400 = 0

DaysInYear(y) == IF IsLeap(y) THEN 366 ELSE 365

DaysInMonth(y, m) ==
    IF m = 2 THEN (IF IsLeap(y) THEN 29 ELSE 28)
    ELSE IF m \in {4, 6, 9, 11} THEN 30 ELSE 31

RECURSIVE SplitYear(_, _)
SplitYear(y, n) ==
    IF n < DaysInYear(y) THEN <<y, n>> ELSE SplitYear(y + 1, n - DaysInYear(y))

RECURSIVE SplitMonth(_, _, _)
SplitMonth(y, m, n) ==
    IF n < DaysInMonth(y, m) THEN <<m, n + 1>>
    ELSE SplitMonth(y, m + 1, n - DaysInMonth(y, m))

\* date.strftime("%Y-%m-%d") and date.isoformat(): the string YYYY-MM-DD,
\* from the year and the day of the year, then the month and the day
FormatYMD(y, md) == y * 10000 + md[1] * 100 + md[2]

FormatYearDay(yn) == FormatYMD(yn[1], SplitMonth(yn[1], 1, yn[2]))

strftime(d) == FormatYearDay(SplitYear(2023, d))

RECURSIVE DaysBeforeYear(_)
DaysBeforeYear(y) ==
    IF y = 2023 THEN 0 ELSE DaysBeforeYear(y - 1) + DaysInYear(y - 1)

RECURSIVE DaysBeforeMonth(_, _)
DaysBeforeMonth(y, m) ==
    IF m = 1 THEN 0 ELSE DaysBeforeMonth(y, m - 1) + DaysInMonth(y, m - 1)

\* isinstance(x, str) for a value that is a date or a date string
IsStr(x) == x >= 10000000

\* whether strptime / fromisoformat accepts the string (else ValueError)
ValidDateStr(s) ==
    LET y == s \div 10000
        m == (s \div 100) % 100
        d == s % 100
    IN  /\ IsStr(s)
        /\ y >= 2023
        /\ m \in 1..12
        /\ d >= 1
        /\ d <= DaysInMonth(y, m)

\* datetime.strptime(s, "%Y-%m-%d").date() and date.fromisoformat(s)
strptime(s) ==
    LET y == s \div 10000
        m == (s \div 100) % 100
        d == s % 100
    IN  DaysBeforeYear(y) + DaysBeforeMonth(y, m) + d - 1

\* date.weekday(): Monday = 0 ... Sunday = 6 (2023-01-01 was a Sunday)
weekday(d) == (d + 6) % 7

\* chinese_calendar.is_workday: weekdays are workdays and weekends are not,
\* except on the dates where the holiday table says otherwise
is_workday(d) == (weekday(d) < 5) # (d \in flipped)

RECURSIVE get_next_workday_from(_)
get_next_workday_from(d) ==
    IF is_workday(d) THEN d ELSE get_next_workday_from(d + 1)

get_next_workday(d) == get_next_workday_from(d + 1)

(***************************************************************************)
(* Method catalog (config/settings.py).  A step without "flexible_days"    *)
(* has the empty window, which step.get("flexible_days") treats the same.  *)
(***************************************************************************)
Step(day, action, description, adjustable, flexible_days) ==
    [day |-> day, action |-> action, description |-> description,
     adjustable |-> adjustable, flexible_days |-> flexible_days]

CYTOTOXIC_METHODS ==
    [Count7Day |->
        [name |-> "Count7Day", adjustable |-> FALSE,
         steps |-> << Step(1, "load", "day 1 load", FALSE, <<>>),
                      Step(2, "change medium", "day 2 change medium", FALSE, <<>>),
                      Step(4, "2-day count", "day 4 2-day count", FALSE, <<>>),
                      Step(6, "4-day count", "day 6 4-day count", FALSE, <<>>),
                      Step(9, "7-day count", "day 9 7-day count", FALSE, <<>>) >>],
     USPMicroscope |->
        [name |-> "USPMicroscope", adjustable |-> FALSE,
         steps |-> << Step(1, "load", "day 1 load", FALSE, <<>>),
                      Step(2, "change medium", "day 2 change medium", FALSE, <<>>),
                      Step(4, "2-day observation", "day 4 2-day observation", FALSE, <<>>) >>],
     MTT_GB14233_2 |->
        [name |-> "MTT_GB14233_2", adjustable |-> FALSE,
         steps |-> << Step(1, "load", "day 1 load", FALSE, <<>>),
                      Step(2, "change medium", "day 2 change medium", FALSE, <<>>),
                      Step(5, "read MTT", "day 5 read MTT", FALSE, <<>>) >>],
     MTT_ISO16886 |->
        [name |-> "MTT_ISO16886", adjustable |-> FALSE,
         steps |-> << Step(1, "load", "day 1 load", FALSE, <<>>),
                      Step(2, "change medium", "day 2 change medium", FALSE, <<>>),
                      Step(3, "read MTT", "day 3 read MTT", FALSE, <<>>) >>],
     JapanesePharmacopoeia |->
        [name |-> "JapanesePharmacopoeia", adjustable |-> TRUE,
         steps |-> << Step(1, "load", "day 1 load", FALSE, <<>>),
                      Step(2, "change medium", "day 2 change medium", FALSE, <<>>),
                      Step(9, "count", "day 9-11 pick one day to count", TRUE,
                           <<9, 10, 11>>) >>]]

get_cytotoxic_methods == CYTOTOXIC_METHODS

MethodNames == DOMAIN CYTOTOXIC_METHODS

\* the method the calculator singles out by name (schedule_utils.py line 50)
FlexibleMethod == "JapanesePharmacopoeia"

(***************************************************************************)
(* ExperimentScheduler.calculate_experiment_schedule                       *)
(***************************************************************************)
SetMin(S) == CHOOSE x \in S : \A y \in S : x <= y
SetMax(S) == CHOOSE x \in S : \A y \in S : x >= y

\* mutant: the relative day taken as 0-indexed
NominalDate_OffByOne(start, day) == start + day

\* start_date + timedelta(days=day - 1)
NominalDate(start, day) == start + (day - 1)

ScheduledStep(step_name, description, relative_day, scheduled_date, original_date, was_adjusted) ==
    [step_name |-> step_name,
     description |-> description,
     relative_day |-> relative_day,
     scheduled_date |-> scheduled_date,
     is_workday |-> is_workday(scheduled_date),
     date_str |-> strftime(scheduled_date),
     original_date |-> original_date,
     was_adjusted |-> was_adjusted]

\* mutant: the scan keeps the last workday of the window instead of stopping
FirstWorkdayIndex_Last(start, window) ==
    LET hits == {i \in 1..Len(window) : is_workday(NominalDate(start, window[i]))}
    IN  IF hits = {} THEN 0 ELSE SetMax(hits)

\* mutant: without a workday the scan ends on the last offset of the window
FirstWorkdayIndex_FallbackLast(start, window) ==
    LET hits == {i \in 1..Len(window) : is_workday(NominalDate(start, window[i]))}
    IN  IF hits = {} THEN Len(window) ELSE SetMin(hits)

\* the index of the first offset of the window that is a workday, 0 if none
FirstWorkdayIndex(start, window) ==
    LET hits == {i \in 1..Len(window) : is_workday(NominalDate(start, window[i]))}
    IN  IF hits = {} THEN 0 ELSE SetMin(hits)

\* lines 71-80: the step appended for the chosen day of the window
FlexibleStepOn(start, step, best_day) ==
    ScheduledStep(step.action,
                  "day " \o ToString(best_day) \o " " \o step.action,
                  best_day,
                  NominalDate(start, best_day),
                  strftime(NominalDate(start, step.day)),
                  NominalDate(start, best_day) # NominalDate(start, step.day))

\* lines 66-69: without a workday in the window the step's own day is taken
FlexibleStepAt(start, step, i) ==
    FlexibleStepOn(start, step, IF i = 0 THEN step.day ELSE step.flexible_days[i])

\* lines 53-80: a step with a flexible window of the flexible method
FlexibleStep(start, step) ==
    FlexibleStepAt(start, step, FirstWorkdayIndex(start, step.flexible_days))

\* lines 81-94 and 115-128: a step kept on its nominal date
FixedStep(start, step) ==
    ScheduledStep(step.action, step.description, step.day,
                  NominalDate(start, step.day),
                  strftime(NominalDate(start, step.day)), FALSE)

\* lines 104-113: the step appended for the date found
NextWorkdayStepOn(start, step, step_date) ==
    ScheduledStep(step.action, step.description, step.day, step_date,
                  strftime(NominalDate(start, step.day)),
                  step_date # NominalDate(start, step.day))

\* lines 97-113: a step of any other adjustable method
NextWorkdayStep(start, step) ==
    NextWorkdayStepOn(start, step,
        IF step.adjustable /\ ~is_workday(NominalDate(start, step.day))
        THEN get_next_workday(NominalDate(start, step.day))
        ELSE NominalDate(start, step.day))

\* line 48: the adjusting branch is taken
AdjustBranch(method_info, adjust) == adjust /\ method_info.adjustable

\* lines 48-128: the branch taken for one step of the template
ScheduleStep(start, name, adjust, step) ==
    IF AdjustBranch(CYTOTOXIC_METHODS[name], adjust)
    THEN IF name = FlexibleMethod
         THEN IF step.flexible_days # <<>>
              THEN FlexibleStep(start, step)
              ELSE FixedStep(start, step)
         ELSE NextWorkdayStep(start, step)
    ELSE FixedStep(start, step)

ScheduleSteps(start, name, adjust) ==
    [i \in 1..Len(CYTOTOXIC_METHODS[name].steps) |->
        ScheduleStep(start, name, adjust, CYTOTOXIC_METHODS[name].steps[i])]

\* mutant: the date of the first step instead of the maximum
EndDate_First(schedule_steps) == schedule_steps[1].scheduled_date

\* line 131: max(step["scheduled_date"] for step in schedule_steps)
EndDate(schedule_steps) ==
    SetMax({schedule_steps[i].scheduled_date : i \in 1..Len(schedule_steps)})

\* mutant: the difference of the dates without the first day
TotalDays_NoPlusOne(start, end) == end - start

\* line 140: (end_date - start_date).days + 1
TotalDays(start, end) == (end - start) + 1

\* lines 27-32: the inputs that make the call raise ValueError
ScheduleRaises(start_arg, name) ==
    \/ name \notin MethodNames
    \/ IsStr(start_arg) /\ ~ValidDateStr(start_arg)

\* lines 130-141: the record returned for the computed steps
ScheduleRecord(start, name, sample_batch, notes, schedule_steps) ==
    [method_name |-> name,
     start_date |-> start,
     end_date |-> EndDate(schedule_steps),
     sample_batch |-> sample_batch,
     notes |-> notes,
     steps |-> schedule_steps,
     total_days |-> TotalDays(start, EndDate(schedule_steps))]

\* lines 34-141: the computation for the parsed start date
ScheduleFrom(start, name, sample_batch, notes, adjust) ==
    ScheduleRecord(start, name, sample_batch, notes, ScheduleSteps(start, name, adjust))

calculate_experiment_schedule(start_arg, name, sample_batch, notes, adjust) ==
    ScheduleFrom(IF IsStr(start_arg) THEN strptime(start_arg) ELSE start_arg,
                 name, sample_batch, notes, adjust)

(***************************************************************************)
(* SpecSchedule: one call of calculate_experiment_schedule on inputs drawn *)
(* from bounded sets.                                                      *)
(***************************************************************************)
\* 2024-06-03, the first start date tried
FirstStart == strptime(20240603)

\* the start dates tried are FirstStart .. FirstStart + StartSpan
StartSpan == 4

\* the holiday table overrides the weekday rule on at most MaxFlips dates
MaxFlips == 3

\* the largest relative day of the catalog (the end of the flexible window)
LastRelativeDay == 11

StartDates == FirstStart..(FirstStart + StartSpan)

OracleDates == FirstStart..(FirstStart + StartSpan + LastRelativeDay - 1)

Oracles == {F \in SUBSET OracleDates : Cardinality(F) <= MaxFlips}

\* a date, the same date as a string, and a string that is no date
StartInputs == StartDates \cup {strftime(FirstStart), 20240631}

MethodInputs == MethodNames \cup {"UnknownMethod"}

\* a file that does not exist
NoFile == [kind |-> "absent", data |-> <<>>]

IdleFile ==
    /\ archive_file = NoFile
    /\ temp_file = NoFile
    /\ quarantine = {}
    /\ file_pc = "idle"
    /\ file_call = [fn |-> "none"]
    /\ existing_archived = <<>>
    /\ appended = 0

\* the empty string where a "HH:MM" string is expected
NoTimeStr == 0 - 1

\* the empty string where a "YYYY-MM-DD" string is expected
NoDateStr == 0

\* DEFAULT_SETTINGS["notification"]; last_push_time is the value
\* settings.get("last_push_time", "") gives, the key being absent
DefaultNotification ==
    [enabled |-> FALSE, webhook_url |-> "", push_time |-> 800,
     last_push_date |-> NoDateStr, last_push_time |-> NoTimeStr]

\* the start_time attribute before start() has set it
NoStartTime == [set |-> FALSE, date |-> 0, sec |-> 0]

\* the thread of _run_scheduler before start() creates it
NoLoop ==
    [pc |-> "stopped", wake |-> 0, bound |-> FALSE, snapshot |-> DefaultNotification,
     today_str |-> NoDateStr, last |-> "none"]

\* no call of send_manual_notification in progress, none made
NoManual == [pc |-> "idle", count |-> 0, last |-> "none"]

IdleNotify ==
    /\ settings = DefaultNotification
    /\ now = [date |-> 0, sec |-> 0]
    /\ start_time = NoStartTime
    /\ gate = <<>>
    /\ loop = NoLoop
    /\ manual = NoManual
    /\ sends = <<>>
    /\ experiments_data = <<>>

\* no call of send_daily_report made
NoReport == [pc |-> "none"]

IdleReport == report = NoReport

\* no session opened
IdleSessions == sessions = <<>>

\* no view computed
IdleViews == view = [fn |-> "none"]

\* the scheduler as __init__ leaves it: not running, no thread
IdleLife ==
    /\ running = FALSE
    /\ stop_event = FALSE
    /\ threads = <<>>

\* the variables of the other specifications at rest
IdleSync ==
    /\ scheduler_started = FALSE
    /\ aliased = FALSE

IdleRest == IdleViews /\ IdleLife /\ IdleSync

IdleExt == IdleFile /\ IdleNotify /\ IdleReport /\ IdleSessions /\ IdleRest

IdlePolicy ==
    /\ pol_experiments = <<>>
    /\ pol_threshold = 0
    /\ pol_result = [status |-> "none"]

IdleApp ==
    /\ today = 0
    /\ experiments = <<>>
    /\ store = <<>>
    /\ archive = <<>>
    /\ created = 0
    /\ faults = 0
    /\ lastOp = [op |-> "init"]

IdleSchedule ==
    /\ start_date = 0
    /\ method_name = "none"
    /\ adjust_workdays = TRUE
    /\ result = [status |-> "none"]

InitSchedule ==
    /\ start_date \in StartInputs
    /\ method_name \in MethodInputs
    /\ adjust_workdays \in BOOLEAN
    /\ flipped \in Oracles
    /\ result = [status |-> "none"]
    /\ IdlePolicy
    /\ IdleApp
    /\ IdleExt

\* the call returns a record
Calculate ==
    /\ result.status = "none"
    /\ ~ScheduleRaises(start_date, method_name)
    /\ result' = [status |-> "ok",
                  record |-> calculate_experiment_schedule(
                                 start_date, method_name, "B1", "", adjust_workdays)]
    /\ UNCHANGED <<start_date, method_name, adjust_workdays, flipped>>
    /\ UNCHANGED polVars
    /\ UNCHANGED appVars
    /\ UNCHANGED extVars

\* the call raises ValueError (unknown method, malformed start date)
CalculateRaises ==
    /\ result.status = "none"
    /\ ScheduleRaises(start_date, method_name)
    /\ result' = [status |-> "ValueError"]
    /\ UNCHANGED <<start_date, method_name, adjust_workdays, flipped>>
    /\ UNCHANGED polVars
    /\ UNCHANGED appVars
    /\ UNCHANGED extVars

NextSchedule == Calculate \/ CalculateRaises

SpecSchedule == InitSchedule /\ [][NextSchedule]_vars

(***************************************************************************)
(* Properties of the schedule calculator (checked under SpecSchedule)      *)
(***************************************************************************)
\* the start date of the call as a date
StartAsDate == IF IsStr(start_date) THEN strptime(start_date) ELSE start_date

Returned == result.status = "ok"

Template == CYTOTOXIC_METHODS[method_name].steps

\* the dates of the offsets of a window that are workdays
WindowWorkdays(window) ==
    {j \in 1..Len(window) : is_workday(StartAsDate + (window[j] - 1))}

\* C1: for a catalog method marked adjustable=false, whatever the start date,
\* the workday oracle and the adjust_workdays setting, every step is scheduled
\* on start_date + (relative_day - 1) days, which is its original_date, with
\* was_adjusted = false.
C1_NonAdjustableIsNominal ==
    (Returned /\ ~CYTOTOXIC_METHODS[method_name].adjustable) =>
        /\ Len(result.record.steps) = Len(Template)
        /\ \A i \in 1..Len(Template) :
              LET st == result.record.steps[i]
              IN  /\ st.relative_day = Template[i].day
                  /\ st.scheduled_date = StartAsDate + (st.relative_day - 1)
                  /\ ValidDateStr(st.original_date)
                  /\ strptime(st.original_date) = st.scheduled_date
                  /\ st.was_adjusted = FALSE

\* the 7-day count method started on Monday 2024-06-03 with adjustment on:
\* steps on 06-03, 06-04, 06-06, 06-08 (a Saturday) and 06-11, 9 days in all
C1_Witness ==
    /\ Returned
    /\ method_name = "Count7Day"
    /\ start_date = strptime(20240603)
    /\ adjust_workdays
    /\ flipped = {}
    /\ [i \in 1..5 |-> result.record.steps[i].date_str]
          = <<20240603, 20240604, 20240606, 20240608, 20240611>>
    /\ ~result.record.steps[4].is_workday
    /\ result.record.end_date = strptime(20240611)
    /\ result.record.total_days = 9

\* C2: for an adjustable method with adjust_workdays on, a step with a
\* flexible window is scheduled on the first offset of the window, in
\* ascending order, whose date is a workday; it counts as adjusted exactly
\* when that offset is not the step's nominal day.
C2_FirstWorkdayOfWindow ==
    (Returned /\ adjust_workdays /\ CYTOTOXIC_METHODS[method_name].adjustable) =>
        \A i \in 1..Len(Template) :
            LET window == Template[i].flexible_days
                st == result.record.steps[i]
            IN  \A j \in WindowWorkdays(window) :
                    (\A k \in WindowWorkdays(window) : j <= k) =>
                        /\ st.relative_day = window[j]
                        /\ st.scheduled_date = StartAsDate + (window[j] - 1)
                        /\ st.is_workday
                        /\ st.was_adjusted = (window[j] # Template[i].day)

\* started on Friday 2024-06-07: day 9 is Saturday 06-15, day 10 Sunday
\* 06-16, day 11 Monday 06-17, which is chosen
C2_Witness ==
    /\ Returned
    /\ method_name = "JapanesePharmacopoeia"
    /\ start_date = strptime(20240607)
    /\ adjust_workdays
    /\ ~is_workday(strptime(20240615))
    /\ ~is_workday(strptime(20240616))
    /\ is_workday(strptime(20240617))
    /\ result.record.steps[3].date_str = 20240617
    /\ result.record.steps[3].relative_day = 11
    /\ result.record.steps[3].was_adjusted

\* the call took the flexible branch and no offset of the window of step i
\* is a workday
NoWorkdayInWindow(i) ==
    /\ Returned
    /\ adjust_workdays
    /\ CYTOTOXIC_METHODS[method_name].adjustable
    /\ Template[i].flexible_days # <<>>
    /\ WindowWorkdays(Template[i].flexible_days) = {}

\* C3 as stated: when no offset of the window [9,10,11] is a workday the
\* step falls back to day 9 with was_adjusted = true and is_workday = false.
C3_Original ==
    \A i \in 1..3 :
        NoWorkdayInWindow(i) =>
            LET st == result.record.steps[i]
            IN  /\ st.relative_day = 9
                /\ st.scheduled_date = StartAsDate + 8
                /\ st.was_adjusted = TRUE
                /\ st.is_workday = FALSE

\* C3 (amended): when no offset of the window [9,10,11] is a workday the
\* step is still scheduled, on day 9, its nominal date, so was_adjusted is
\* false; is_workday is false.
C3_FallbackToNominal ==
    \A i \in 1..3 :
        NoWorkdayInWindow(i) =>
            LET st == result.record.steps[i]
            IN  /\ st.relative_day = 9
                /\ st.scheduled_date = StartAsDate + 8
                /\ st.was_adjusted = FALSE
                /\ st.is_workday = FALSE

C3_Witness ==
    /\ NoWorkdayInWindow(3)
    /\ result.record.steps[3].relative_day = 9

\* C4: end_date is the maximum scheduled_date over all steps and is not
\* before start_date.
C4_EndDateIsMax ==
    Returned =>
        LET r == result.record
        IN  /\ \A i \in 1..Len(r.steps) : r.steps[i].scheduled_date <= r.end_date
            /\ \E i \in 1..Len(r.steps) : r.steps[i].scheduled_date = r.end_date
            /\ r.end_date >= r.start_date
            /\ r.start_date = StartAsDate

\* a record whose steps fall on different dates, the latest one adjusted
C4_Witness ==
    /\ Returned
    /\ result.record.steps[3].was_adjusted
    /\ result.record.end_date = StartAsDate + 10
    /\ result.record.steps[1].scheduled_date < result.record.end_date

\* C5: total_days = (end_date - start_date).days + 1, and total_days is at
\* least the number of distinct relative days of the method's template.
C5_TotalDays ==
    Returned =>
        LET r == result.record
        IN  /\ r.total_days = (r.end_date - r.start_date) + 1
            /\ r.total_days >= Cardinality({Template[i].day : i \in 1..Len(Template)})

\* the tight case: three steps on three consecutive days
C5_Witness ==
    /\ Returned
    /\ method_name = "MTT_ISO16886"
    /\ result.record.total_days = 3
    /\ Cardinality({Template[i].day : i \in 1..Len(Template)}) = 3

(***************************************************************************)
(* Archive policy (utils/data_archive.py)                                  *)
(***************************************************************************)
\* mutant: a record is archived as soon as the threshold is reached
should_archive_experiment_AtThreshold(experiment, archive_threshold_days) ==
    IF "end_date" \notin DOMAIN experiment THEN FALSE
    ELSE IF IsStr(experiment.end_date) /\ ~ValidDateStr(experiment.end_date) THEN FALSE
    ELSE LET end_date == IF IsStr(experiment.end_date)
                         THEN strptime(experiment.end_date)
                         ELSE experiment.end_date
         IN  (today - end_date) >= archive_threshold_days

\* DataArchiver.should_archive_experiment; a record without end_date and a
\* record whose end_date string does not parse (the except branch) give False
should_archive_experiment(experiment, archive_threshold_days) ==
    IF "end_date" \notin DOMAIN experiment THEN FALSE
    ELSE IF IsStr(experiment.end_date) /\ ~ValidDateStr(experiment.end_date) THEN FALSE
    ELSE LET end_date == IF IsStr(experiment.end_date)
                         THEN strptime(experiment.end_date)
                         ELSE experiment.end_date
             days_since_end == today - end_date
         IN  days_since_end > archive_threshold_days

\* mutant: the else branch is missing an exclusion, every record is kept
get_archivable_experiments_KeepAll(exps, archive_threshold_days) ==
    [archivable |-> SelectSeq(exps, LAMBDA exp :
                        should_archive_experiment(exp, archive_threshold_days)),
     to_keep |-> exps]

\* DataArchiver.get_archivable_experiments: one pass over the list, each
\* record appended to one of the two lists
get_archivable_experiments(exps, archive_threshold_days) ==
    [archivable |-> SelectSeq(exps, LAMBDA exp :
                        should_archive_experiment(exp, archive_threshold_days)),
     to_keep |-> SelectSeq(exps, LAMBDA exp :
                        ~should_archive_experiment(exp, archive_threshold_days))]

(***************************************************************************)
(* SpecPolicy: one call of get_archivable_experiments on a list, a         *)
(* threshold and a day drawn from bounded sets.                            *)
(***************************************************************************)
\* 2024-06-01, the day of the calls
PolicyToday == strptime(20240601)

\* the lists tried have at most MaxPolicyLen records
MaxPolicyLen == 2

\* the default threshold of the archiver
DefaultThreshold == 180

Thresholds == {0, 152, DefaultThreshold}

\* end_date values: dates 213, 181, 180 and 152 days before the day of the
\* call, that day and the next, a date string and a string that is no date
PolicyEndDates ==
    {strptime(20231101), PolicyToday - 181, PolicyToday - 180,
     strptime(20240101), PolicyToday, PolicyToday + 1,
     20231101, 20231131}

PolicyRecords ==
    [exp_id : {1, 2}, end_date : PolicyEndDates] \cup [exp_id : {1}]

PolicyLists ==
    UNION {[1..n -> PolicyRecords] : n \in 0..MaxPolicyLen}

InitPolicy ==
    /\ pol_experiments \in PolicyLists
    /\ pol_threshold \in Thresholds
    /\ pol_result = [status |-> "none"]
    /\ today = PolicyToday
    /\ experiments = <<>>
    /\ store = <<>>
    /\ archive = <<>>
    /\ created = 0
    /\ faults = 0
    /\ lastOp = [op |-> "init"]
    /\ flipped = {}
    /\ IdleSchedule
    /\ IdleExt

Partition ==
    /\ pol_result.status = "none"
    /\ pol_result' = [status |-> "ok",
                      lists |-> get_archivable_experiments(pol_experiments, pol_threshold)]
    /\ UNCHANGED <<pol_experiments, pol_threshold>>
    /\ UNCHANGED schedVars
    /\ UNCHANGED appVars
    /\ UNCHANGED extVars

NextPolicy == Partition

SpecPolicy == InitPolicy /\ [][NextPolicy]_vars

\* the records of list s at the positions of S, in the order of the list
RECURSIVE AtPositions(_, _)
AtPositions(s, S) ==
    IF s = <<>> THEN <<>>
    ELSE LET front == AtPositions(SubSeq(s, 1, Len(s) - 1), S \ {Len(s)})
         IN  IF Len(s) \in S THEN Append(front, s[Len(s)]) ELSE front

Range(s) == {s[i] : i \in DOMAIN s}

\* C9: get_archivable_experiments is a stable partition for any threshold:
\* the two output lists are the input at a set of positions and at the
\* other positions, each in the order of the input, and no record is in
\* both lists.
C9_StablePartition ==
    pol_result.status = "ok" =>
        LET out == pol_result.lists
            n == Len(pol_experiments)
        IN  /\ \E S \in SUBSET (1..n) :
                  /\ out.archivable = AtPositions(pol_experiments, S)
                  /\ out.to_keep = AtPositions(pol_experiments, (1..n) \ S)
            /\ Range(out.archivable) \cap Range(out.to_keep) = {}
            /\ Range(out.archivable) \cup Range(out.to_keep) = Range(pol_experiments)

\* a call that puts a record in each list
C9_Witness ==
    /\ pol_result.status = "ok"
    /\ Len(pol_experiments) = 2
    /\ Len(pol_result.lists.archivable) = 1
    /\ pol_result.lists.to_keep = <<pol_experiments[1]>>

\* the end date of a record as a date
EndAsDate(r) == IF IsStr(r.end_date) THEN strptime(r.end_date) ELSE r.end_date

HasEndDate(r) ==
    /\ "end_date" \in DOMAIN r
    /\ IsStr(r.end_date) => ValidDateStr(r.end_date)

\* C10: a record (with an end date) is eligible for archiving iff
\* (today - end_date).days is strictly greater than threshold_days.
C10_EligibleIffOlderThanThreshold ==
    pol_result.status = "ok" =>
        \A i \in 1..Len(pol_experiments) :
            LET r == pol_experiments[i]
            IN  HasEndDate(r) =>
                    ((r \in Range(pol_result.lists.archivable))
                        <=> (today - EndAsDate(r) > pol_threshold))

\* threshold 180 on 2024-06-01: the record ended on 2023-11-01, 213 days
\* before, is eligible and the one ended exactly 180 days before is not
C10_Witness ==
    /\ pol_result.status = "ok"
    /\ pol_threshold = 180
    /\ today = strptime(20240601)
    /\ today - strptime(20231101) = 213
    /\ pol_experiments = <<[exp_id |-> 1, end_date |-> strptime(20231101)],
                           [exp_id |-> 2, end_date |-> today - 180]>>
    /\ pol_result.lists.archivable = <<pol_experiments[1]>>
    /\ pol_result.lists.to_keep = <<pol_experiments[2]>>

\* the record ended on 2024-01-01, 152 days before, is not eligible
C10_Witness152 ==
    /\ pol_result.status = "ok"
    /\ pol_threshold = 180
    /\ today - strptime(20240101) = 152
    /\ pol_experiments = <<[exp_id |-> 1, end_date |-> strptime(20240101)]>>
    /\ pol_result.lists.to_keep = pol_experiments

(***************************************************************************)
(* The live store and the archive store (app.py, utils/data_archive.py)    *)
(*                                                                         *)
(* A record of the live list carries the ghost field uid, the identity of  *)
(* the record (the code has no such field and never reads it): a record    *)
(* entered twice with the same inputs is two records.                      *)
(***************************************************************************)
\* save_experiments lines 103-112 and DataArchiver._convert_dates_to_strings:
\* the dates of a record rendered as strings
convert_dates_to_strings(exp) ==
    [exp EXCEPT !.start_date = strftime(exp.start_date),
                !.end_date = strftime(exp.end_date),
                !.steps = [i \in 1..Len(exp.steps) |->
                              [exp.steps[i] EXCEPT
                                  !.scheduled_date = strftime(exp.steps[i].scheduled_date)]]]

\* mutant: the scheduled_date of the steps is left as the string stored
parse_dates_StepsUnparsed(rec) ==
    [rec EXCEPT !.start_date = strptime(rec.start_date),
                !.end_date = strptime(rec.end_date)]

\* load_experiments lines 75-79: the date strings of a stored record parsed
parse_dates(rec) ==
    [rec EXCEPT !.start_date = strptime(rec.start_date),
                !.end_date = strptime(rec.end_date),
                !.steps = [i \in 1..Len(rec.steps) |->
                              [rec.steps[i] EXCEPT
                                  !.scheduled_date = strptime(rec.steps[i].scheduled_date)]]]

\* the file content save_experiments writes for a list
StoredForm(exps) == [i \in 1..Len(exps) |-> convert_dates_to_strings(exps[i])]

\* what the store holds after save_experiments(exps): the new content, or the
\* old one when opening the file for writing fails (the function returns False)
save_experiments(old_store, exps, save_ok) ==
    IF save_ok THEN StoredForm(exps) ELSE old_store

\* archive_experiments lines 129-137: the copy of a record put in the archive
ArchivedCopy(exp, archive_threshold_days) ==
    convert_dates_to_strings(exp) @@
        [archived_at |-> strftime(today),
         archive_reason |-> "ended more than " \o ToString(archive_threshold_days)
                                \o " days ago"]

\* the outcomes of DataArchiver.save_archived_experiments: "ok" (True), or
\* False either with the archive file as it was ("failed": the temporary
\* file could not be written or verified) or with the archive file removed
\* ("rename_failed": lines 206-208, unlink done and rename raised)
ArchiveSaveOutcomes == {"ok", "failed", "rename_failed"}

\* mutant: a failed save of the archive still reports the records as archived
ArchiveParts_CountOnFailure(old_archive, exps, parts, archive_threshold_days, outcome) ==
    IF parts.archivable = <<>>
    THEN [archived_count |-> 0, kept_count |-> Len(exps),
          archive |-> old_archive, archive_saved |-> FALSE]
    ELSE [archived_count |-> Len(parts.archivable),
          kept_count |-> Len(parts.to_keep),
          archive |-> IF outcome = "ok"
                      THEN old_archive \o
                           [i \in 1..Len(parts.archivable) |->
                               ArchivedCopy(parts.archivable[i], archive_threshold_days)]
                      ELSE IF outcome = "rename_failed" THEN <<>> ELSE old_archive,
          archive_saved |-> TRUE]

\* archive_experiments lines 121-152, after get_archivable_experiments has
\* split the list: nothing to archive, or the copies appended and saved
ArchiveParts(old_archive, exps, parts, archive_threshold_days, outcome) ==
    IF parts.archivable = <<>>
    THEN [archived_count |-> 0, kept_count |-> Len(exps),
          archive |-> old_archive, archive_saved |-> FALSE]
    ELSE IF outcome = "ok"
    THEN [archived_count |-> Len(parts.archivable),
          kept_count |-> Len(parts.to_keep),
          archive |-> old_archive \o
                      [i \in 1..Len(parts.archivable) |->
                          ArchivedCopy(parts.archivable[i], archive_threshold_days)],
          archive_saved |-> TRUE]
    ELSE [archived_count |-> 0, kept_count |-> Len(exps),
          archive |-> IF outcome = "rename_failed" THEN <<>> ELSE old_archive,
          archive_saved |-> TRUE]

\* DataArchiver.archive_experiments: the counts returned, the archive file
\* afterwards and whether save_archived_experiments was called
archive_experiments(old_archive, exps, archive_threshold_days, outcome) ==
    ArchiveParts(old_archive, exps,
                 get_archivable_experiments(exps, archive_threshold_days),
                 archive_threshold_days, outcome)

\* auto_archive_experiments lines 313-321, for the result r of archive_experiments
AutoArchiveResult(exps, archive_threshold_days, r) ==
    IF r.archived_count > 0
    THEN [data |-> get_archivable_experiments(exps, archive_threshold_days).to_keep,
          archived_count |-> r.archived_count, archive |-> r.archive,
          archive_saved |-> r.archive_saved]
    ELSE [data |-> exps, archived_count |-> 0, archive |-> r.archive,
          archive_saved |-> r.archive_saved]

\* auto_archive_experiments
auto_archive_experiments(old_archive, exps, archive_threshold_days, outcome) ==
    AutoArchiveResult(exps, archive_threshold_days,
        archive_experiments(old_archive, exps, archive_threshold_days, outcome))

\* lines 350-353 and 382-385: to_keep is returned with the count of the
\* forced archive_experiments call
ManualArchiveResult(to_keep, r) ==
    [data |-> to_keep, archived_count |-> r.archived_count,
     archive |-> r.archive, archive_saved |-> r.archive_saved]

\* the common body of manual_archive_by_exp_id and
\* manual_archive_by_sample_batch (lines 347-353 and 379-385), after the
\* loop that splits the list into to_archive and to_keep
ManualArchive(old_archive, exps, to_archive, to_keep, outcome) ==
    IF to_archive = <<>>
    THEN [data |-> exps, archived_count |-> 0, archive |-> old_archive,
          archive_saved |-> FALSE]
    ELSE ManualArchiveResult(to_keep, archive_experiments(old_archive, to_archive, 0, outcome))

manual_archive_by_exp_id(old_archive, exps, exp_id, outcome) ==
    ManualArchive(old_archive, exps,
                  SelectSeq(exps, LAMBDA exp : exp.exp_id = exp_id),
                  SelectSeq(exps, LAMBDA exp : exp.exp_id # exp_id),
                  outcome)

manual_archive_by_sample_batch(old_archive, exps, sample_batch, outcome) ==
    ManualArchive(old_archive, exps,
                  SelectSeq(exps, LAMBDA exp : exp.sample_batch = sample_batch),
                  SelectSeq(exps, LAMBDA exp : exp.sample_batch # sample_batch),
                  outcome)

\* load_experiments lines 84-91, for the result r of auto_archive_experiments:
\* the list is saved again when something was archived
LoadArchived(old_store, r, save_ok) ==
    [data |-> r.data, archived_count |-> r.archived_count,
     store |-> IF r.archived_count > 0
               THEN save_experiments(old_store, r.data, save_ok)
               ELSE old_store,
     archive |-> r.archive,
     archive_saved |-> r.archive_saved,
     store_saved |-> r.archived_count > 0]

\* load_experiments lines 81-96, for the parsed list
LoadParsed(old_store, old_archive, data, outcome, save_ok) ==
    IF data = <<>>
    THEN [data |-> data, archived_count |-> 0,
          store |-> old_store, archive |-> old_archive,
          archive_saved |-> FALSE, store_saved |-> FALSE]
    ELSE LoadArchived(old_store,
             auto_archive_experiments(old_archive, data, DefaultThreshold, outcome),
             save_ok)

\* load_experiments: the list returned, the two files afterwards and
\* whether the archive file and the store were written
load_experiments(old_store, old_archive, outcome, save_ok) ==
    LoadParsed(old_store, old_archive,
               [i \in 1..Len(old_store) |-> parse_dates(old_store[i])],
               outcome, save_ok)

(***************************************************************************)
(* The handlers of a session (app.py).  Every handler is one run of the    *)
(* script: main() first loads the list when the session's list is empty.   *)
(***************************************************************************)
\* main() lines 1748-1749
main(outcome, save_ok) ==
    IF experiments = <<>>
    THEN load_experiments(store, archive, outcome, save_ok)
    ELSE [data |-> experiments, archived_count |-> 0,
          store |-> store, archive |-> archive,
          archive_saved |-> FALSE, store_saved |-> FALSE]

\* mutant: the number is not required to be positive
validate_exp_id_AnyNumber(exp_id, existing_experiments, allow_duplicate) ==
    IF allow_duplicate THEN TRUE
    ELSE \A i \in 1..Len(existing_experiments) :
             existing_experiments[i].exp_id # exp_id

\* ExperimentScheduler.validate_exp_id
validate_exp_id(exp_id, existing_experiments, allow_duplicate) ==
    IF exp_id <= 0 THEN FALSE
    ELSE IF allow_duplicate THEN TRUE
    ELSE \A i \in 1..Len(existing_experiments) :
             existing_experiments[i].exp_id # exp_id

\* add_experiment lines 133-138: the next free experiment number
AutoExpId(exps) ==
    IF exps # <<>> THEN SetMax({exps[i].exp_id : i \in 1..Len(exps)}) + 1 ELSE 1

\* the manual_exp_id argument: a number, or None
GivenExpId(n) == [given |-> TRUE, value |-> n]

NoExpId == [given |-> FALSE, value |-> 0]

\* the arguments of one add_experiment call (notes is always empty)
AddArgs(start_arg, name, sample_batch, manual_exp_id, allow_duplicate) ==
    [start_date |-> start_arg, method_name |-> name, sample_batch |-> sample_batch,
     manual_exp_id |-> manual_exp_id, allow_duplicate_exp_id |-> allow_duplicate]

\* add_experiment returns False and creates nothing (lines 128-130, 157-159)
AddFails(exps, start_arg, name, manual_exp_id, allow_duplicate) ==
    \/ manual_exp_id.given /\ ~validate_exp_id(manual_exp_id.value, exps, allow_duplicate)
    \/ ScheduleRaises(start_arg, name)

\* the record add_experiment appends (lines 125-145)
NewExperiment(exps, start_arg, name, sample_batch, notes, manual_exp_id, uid) ==
    calculate_experiment_schedule(start_arg, name, sample_batch, notes, adjust_workdays)
        @@ [exp_id |-> IF manual_exp_id.given THEN manual_exp_id.value
                       ELSE AutoExpId(exps),
            uid |-> uid]

\* 2024-06-01, the day the session starts
AppToday == strptime(20240601)

\* the clock advances by at most MaxDays days
MaxDays == 1

\* at most MaxCreated records are created
MaxCreated == 2

\* at most MaxFaults file operations fail
MaxFaults == 1

\* the add_experiment calls made.  Accepted: an experiment of batch B1 that
\* ended 180 days before the first day and one of the same batch ending on
\* the first day, both entered with the form's default number 1, and one of
\* batch B2 still running, its last step moved over a weekend, numbered
\* automatically.  Rejected: an unknown method, the number 0, the number 1
\* again when duplicates are not allowed, and the start date "2024-02-30"
AddChoices ==
    {AddArgs(strftime(AppToday - 182), "MTT_ISO16886", "B1", GivenExpId(1), TRUE),
     AddArgs(strftime(AppToday - 2), "MTT_ISO16886", "B1", GivenExpId(1), TRUE),
     AddArgs(strftime(AppToday - 1), "JapanesePharmacopoeia", "B2", NoExpId, TRUE),
     AddArgs(strftime(AppToday), "UnknownMethod", "B2", NoExpId, TRUE),
     AddArgs(strftime(AppToday - 2), "MTT_ISO16886", "B1", GivenExpId(0), TRUE),
     AddArgs(strftime(AppToday - 2), "MTT_ISO16886", "B1", GivenExpId(1), FALSE),
     AddArgs(20240230, "MTT_ISO16886", "B1", GivenExpId(1), TRUE)}

\* the number of failures among the file operations of one handler
FaultsOf(outcome, save_ok) ==
    (IF outcome = "ok" THEN 0 ELSE 1) + (IF save_ok THEN 0 ELSE 1)

\* only a file operation that runs can fail
CanFail(archive_saved, store_saved, outcome, save_ok) ==
    /\ outcome # "ok" => archive_saved
    /\ ~save_ok => store_saved

Init ==
    /\ today = AppToday
    /\ experiments = <<>>
    /\ store = <<>>
    /\ archive = <<>>
    /\ created = 0
    /\ faults = 0
    /\ lastOp = [op |-> "init"]
    /\ flipped = {}
    /\ IdleSchedule
    /\ IdlePolicy
    /\ IdleExt

\* the variables the handlers of the list leave alone
appOthers ==
    <<fileVars, settings, now, start_time, gate, loop, manual, sends, reportVars,
      sessionVars, viewVars, lifeVars>>

\* what a run of the script does to the scheduler's experiments_data and to
\* the session's flag.  main() gives the session a new list object when the
\* list is empty.  "mutate": add_experiment lines 147-153, delete_experiment
\* lines 164-170 and update_experiment lines 219-226 change the list object
\* in place and call update_scheduler_experiments when the flag is set.
\* "reassign": the archive handlers, lines 1209-1211 and 1293-1295, give the
\* session a new list object and make no call.  "rerun": a run that leaves
\* the list as it is.  "session": a new session, whose flag is False (lines
\* 47-48).  "idle": no run of the script.
SchedulerLink(kind) ==
    /\ experiments_data' =
           IF kind = "mutate" /\ (scheduler_started \/ (aliased /\ experiments # <<>>))
           THEN experiments'
           ELSE experiments_data
    /\ aliased' =
           CASE kind = "mutate" -> scheduler_started \/ (aliased /\ experiments # <<>>)
             [] kind = "rerun" -> aliased /\ experiments # <<>>
             [] kind = "idle" -> aliased
             [] OTHER -> FALSE
    /\ scheduler_started' = (scheduler_started /\ kind # "session")
    /\ UNCHANGED appOthers

\* a new session opens the page: main() loads the list (load_experiments)
OpenSession ==
    \E outcome \in ArchiveSaveOutcomes, save_ok \in BOOLEAN :
        \E r \in {load_experiments(store, archive, outcome, save_ok)} :
            /\ CanFail(r.archive_saved, r.store_saved, outcome, save_ok)
            /\ faults + FaultsOf(outcome, save_ok) <= MaxFaults
            /\ faults' = faults + FaultsOf(outcome, save_ok)
            /\ experiments' = r.data
            /\ store' = r.store
            /\ archive' = r.archive
            /\ lastOp' = [op |-> "load",
                          before |-> [i \in 1..Len(store) |-> parse_dates(store[i])],
                          archived_count |-> r.archived_count,
                          outcome |-> outcome]
            /\ UNCHANGED <<today, created>>
            /\ UNCHANGED schedVars
            /\ UNCHANGED polVars
            /\ SchedulerLink("session")

\* the add form is submitted and add_experiment appends a record
AddExperiment ==
    \E choice \in AddChoices, outcome \in ArchiveSaveOutcomes,
       load_save_ok \in BOOLEAN, save_ok \in BOOLEAN :
        /\ created < MaxCreated
        /\ faults + FaultsOf(outcome, load_save_ok) + FaultsOf("ok", save_ok) <= MaxFaults
        /\ \E m \in {main(outcome, load_save_ok)} :
            /\ CanFail(m.archive_saved, m.store_saved, outcome, load_save_ok)
            /\ ~AddFails(m.data, choice.start_date, choice.method_name,
                        choice.manual_exp_id, choice.allow_duplicate_exp_id)
            /\ \E experiment \in {NewExperiment(m.data, choice.start_date,
                                                choice.method_name, choice.sample_batch,
                                                "", choice.manual_exp_id, created + 1)} :
                /\ experiments' = Append(m.data, experiment)
                /\ store' = save_experiments(m.store, Append(m.data, experiment), save_ok)
                /\ lastOp' = [op |-> "add", exp_id |-> experiment.exp_id, choice |-> choice]
            /\ archive' = m.archive
        /\ faults' = faults + FaultsOf(outcome, load_save_ok) + FaultsOf("ok", save_ok)
        /\ created' = created + 1
        /\ UNCHANGED today
        /\ UNCHANGED schedVars
        /\ UNCHANGED polVars
        /\ SchedulerLink("mutate")

\* the add form is submitted and add_experiment returns False
AddExperimentRejected ==
    \E choice \in AddChoices, outcome \in ArchiveSaveOutcomes,
       load_save_ok \in BOOLEAN :
        /\ faults + FaultsOf(outcome, load_save_ok) <= MaxFaults
        /\ \E m \in {main(outcome, load_save_ok)} :
            /\ CanFail(m.archive_saved, m.store_saved, outcome, load_save_ok)
            /\ AddFails(m.data, choice.start_date, choice.method_name,
                        choice.manual_exp_id, choice.allow_duplicate_exp_id)
            /\ experiments' = m.data
            /\ store' = m.store
            /\ archive' = m.archive
        /\ faults' = faults + FaultsOf(outcome, load_save_ok)
        /\ lastOp' = [op |-> "add_rejected"]
        /\ UNCHANGED <<today, created>>
        /\ UNCHANGED schedVars
        /\ UNCHANGED polVars
        /\ SchedulerLink("rerun")

\* the delete button of a listed record: delete_experiment(index)
DeleteExperiment ==
    \E index \in 1..Len(experiments), save_ok \in BOOLEAN :
        /\ faults + FaultsOf("ok", save_ok) <= MaxFaults
        /\ faults' = faults + FaultsOf("ok", save_ok)
        /\ \E remaining \in {[i \in 1..(Len(experiments) - 1) |->
                                IF i < index THEN experiments[i] ELSE experiments[i + 1]]} :
            /\ experiments' = remaining
            /\ store' = save_experiments(store, remaining, save_ok)
        /\ lastOp' = [op |-> "delete"]
        /\ UNCHANGED <<today, archive, created>>
        /\ UNCHANGED schedVars
        /\ UNCHANGED polVars
        /\ SchedulerLink("mutate")

\* the inputs of the edit form: a valid date, a method of the catalogue and
\* a batch
EditChoices ==
    {[start_date |-> strftime(AppToday - 1), method_name |-> FlexibleMethod,
      sample_batch |-> "B2"],
     [start_date |-> strftime(AppToday - 2), method_name |-> "MTT_ISO16886",
      sample_batch |-> "B1"]}

\* mutant: the record gets the next free number
UpdatedExperiment_NewNumber(exps, index, choice) ==
    calculate_experiment_schedule(choice.start_date, choice.method_name,
                                  choice.sample_batch, "", adjust_workdays)
        @@ [exp_id |-> AutoExpId(exps), uid |-> exps[index].uid]

\* update_experiment lines 209-217: the record computed from the inputs,
\* with the number of the record it replaces
UpdatedExperiment(exps, index, choice) ==
    calculate_experiment_schedule(choice.start_date, choice.method_name,
                                  choice.sample_batch, "", adjust_workdays)
        @@ [exp_id |-> exps[index].exp_id, uid |-> exps[index].uid]

\* the edit form is submitted and update_experiment replaces the record
UpdateExperiment ==
    \E index \in 1..Len(experiments), choice \in EditChoices, save_ok \in BOOLEAN :
        /\ faults + FaultsOf("ok", save_ok) <= MaxFaults
        /\ faults' = faults + FaultsOf("ok", save_ok)
        /\ \E updated \in {[experiments EXCEPT
                                ![index] = UpdatedExperiment(experiments, index, choice)]} :
            /\ experiments' = updated
            /\ store' = save_experiments(store, updated, save_ok)
        /\ lastOp' = [op |-> "edit", index |-> index, choice |-> choice]
        /\ UNCHANGED <<today, archive, created>>
        /\ UNCHANGED schedVars
        /\ UNCHANGED polVars
        /\ SchedulerLink("mutate")

\* render_experiment_list lines 1203-1219 and 1288-1303: what the handler of
\* an archive button does with the result r of the manual archive call
ApplyManualArchive(op, key, r, outcome, save_ok) ==
    /\ CanFail(r.archive_saved, r.archived_count > 0, outcome, save_ok)
    /\ faults + FaultsOf(outcome, save_ok) <= MaxFaults
    /\ faults' = faults + FaultsOf(outcome, save_ok)
    /\ experiments' = IF r.archived_count > 0 THEN r.data ELSE experiments
    /\ store' = IF r.archived_count > 0
                THEN save_experiments(store, r.data, save_ok)
                ELSE store
    /\ archive' = r.archive
    /\ lastOp' = [op |-> op, key |-> key, before |-> experiments,
                  archived_count |-> r.archived_count, outcome |-> outcome]
    /\ UNCHANGED <<today, created>>
    /\ UNCHANGED schedVars
    /\ UNCHANGED polVars
    /\ SchedulerLink(IF r.archived_count > 0 THEN "reassign" ELSE "rerun")

\* the confirmed "archive all" button of a listed experiment number
ArchiveByExpId ==
    \E i \in 1..Len(experiments), outcome \in ArchiveSaveOutcomes, save_ok \in BOOLEAN :
        \E r \in {manual_archive_by_exp_id(archive, experiments,
                                           experiments[i].exp_id, outcome)} :
            ApplyManualArchive("archive_by_exp_id", experiments[i].exp_id,
                               r, outcome, save_ok)

\* the archive button of a listed sample batch
ArchiveBySampleBatch ==
    \E i \in 1..Len(experiments), outcome \in ArchiveSaveOutcomes, save_ok \in BOOLEAN :
        \E r \in {manual_archive_by_sample_batch(archive, experiments,
                                                 experiments[i].sample_batch, outcome)} :
            ApplyManualArchive("archive_by_sample_batch", experiments[i].sample_batch,
                               r, outcome, save_ok)

\* midnight passes: date.today() is the next day
NextDay ==
    /\ today < AppToday + MaxDays
    /\ today' = today + 1
    /\ lastOp' = [op |-> "next_day"]
    /\ UNCHANGED <<experiments, store, archive, created, faults>>
    /\ UNCHANGED schedVars
    /\ UNCHANGED polVars
    /\ SchedulerLink("idle")

Next ==
    \/ OpenSession
    \/ AddExperiment
    \/ AddExperimentRejected
    \/ DeleteExperiment
    \/ ArchiveByExpId
    \/ ArchiveBySampleBatch
    \/ NextDay

Spec == Init /\ [][Next]_vars

\* the runs of the application in which no file operation fails, the edit
\* form included
NextReliable ==
    \/ OpenSession /\ faults' = 0
    \/ AddExperiment /\ faults' = 0
    \/ AddExperimentRejected /\ faults' = 0
    \/ DeleteExperiment /\ faults' = 0
    \/ UpdateExperiment /\ faults' = 0
    \/ ArchiveByExpId /\ faults' = 0
    \/ ArchiveBySampleBatch /\ faults' = 0
    \/ NextDay /\ faults' = 0

SpecReliable == Init /\ [][NextReliable]_vars

(***************************************************************************)
(* Properties of archiving in the application (checked under Spec)         *)
(***************************************************************************)
\* an archive record without the two fields archiving adds
ArchiveCore(a) == [f \in DOMAIN a \ {"archived_at", "archive_reason"} |-> a[f]]

InLive(r) == \E i \in 1..Len(experiments) : experiments[i] = r

InArchive(r) ==
    \E i \in 1..Len(archive) : ArchiveCore(archive[i]) = convert_dates_to_strings(r)

InStore(r) == \E i \in 1..Len(store) : store[i] = convert_dates_to_strings(r)

ManualArchiveOps == {"archive_by_exp_id", "archive_by_sample_batch"}

ArchiveOps == ManualArchiveOps \cup {"load"}

\* the last handler was an archive operation whose result was applied
ArchiveApplied == lastOp.op \in ArchiveOps /\ lastOp.archived_count > 0

\* the record was selected by the last manual archive operation
SelectedByLastOp(r) ==
    \/ lastOp.op = "archive_by_exp_id" /\ r.exp_id = lastOp.key
    \/ lastOp.op = "archive_by_sample_batch" /\ r.sample_batch = lastOp.key

\* C6: archiving never loses data: after an automatic or manual archive
\* operation whose result the application applies, every record that was in
\* the live list before the operation is in the live list or in the archive.
C6_ArchivingLosesNoRecord ==
    ArchiveApplied =>
        \A i \in 1..Len(lastOp.before) :
            InLive(lastOp.before[i]) \/ InArchive(lastOp.before[i])

\* C7: forced archiving of an exp_id or a sample_batch archives every live
\* record that matches it, whatever its age, also one whose end_date is today
\* or in the future (when the archive file can be written).
C7_ForcedArchiveIgnoresAge ==
    (lastOp.op \in ManualArchiveOps /\ lastOp.outcome = "ok") =>
        \A i \in 1..Len(lastOp.before) :
            SelectedByLastOp(lastOp.before[i]) => InArchive(lastOp.before[i])

\* C8: no record is in the live list or the live store and in the archive at
\* the same time, also when saving the live store fails after the archive
\* was written.
C8_NeverLiveAndArchived ==
    /\ \A i \in 1..Len(experiments) : ~InArchive(experiments[i])
    /\ \A i \in 1..Len(store) :
           \A j \in 1..Len(archive) : ArchiveCore(archive[j]) # store[i]

(***************************************************************************)
(* SpecArchiveFile: the archive file under DataArchiver, one file          *)
(* operation at a time.  archive_experiments reads the file with           *)
(* load_archived_experiments, appends the new copies and replaces the file *)
(* with save_archived_experiments: the temporary file is written, read     *)
(* back, the old file is removed and the temporary file renamed over it.   *)
(* A file is absent, readable (it holds a list), or unreadable.            *)
(***************************************************************************)
\* a gzip file that reads back as the JSON list data
ReadableFile(data) == [kind |-> "readable", data |-> data]

\* a file that exists and does not read back (damaged gzip or JSON); data is
\* the list it held before
UnreadableFile(data) == [kind |-> "unreadable", data |-> data]

\* mutant: the unreadable file is removed instead of being kept under another name
load_archived_experiments_Discard(file, backups, rename_ok) ==
    IF file.kind = "absent"
    THEN [ret |-> <<>>, file |-> file, backups |-> backups, raised |-> FALSE]
    ELSE IF file.kind = "readable"
    THEN [ret |-> file.data, file |-> file, backups |-> backups, raised |-> FALSE]
    ELSE IF rename_ok
    THEN [ret |-> <<>>, file |-> NoFile, backups |-> backups, raised |-> FALSE]
    ELSE [ret |-> <<>>, file |-> file, backups |-> backups, raised |-> FALSE]

\* DataArchiver.load_archived_experiments with _backup_corrupted_archive:
\* the list returned, the archive file and the quarantined files afterwards.
\* rename_ok: the rename of line 174 succeeds (its failure is caught, line 176)
load_archived_experiments(file, backups, rename_ok) ==
    IF file.kind = "absent"
    THEN [ret |-> <<>>, file |-> file, backups |-> backups, raised |-> FALSE]
    ELSE IF file.kind = "readable"
    THEN [ret |-> file.data, file |-> file, backups |-> backups, raised |-> FALSE]
    ELSE IF rename_ok
    THEN [ret |-> <<>>, file |-> NoFile, backups |-> backups \cup {file.data},
          raised |-> FALSE]
    ELSE [ret |-> <<>>, file |-> file, backups |-> backups, raised |-> FALSE]

\* at most MaxArchived records are appended to the archive
MaxArchived == 3

\* what gzip.open(temp_file, 'wt') and json.dump leave behind: the list
\* written, a file that does not read back, a file that reads back one
\* record short, or an exception
WriteOutcomes == {"written", "damaged", "short", "raised"}

\* lines 188-192: the temporary file after the write
WrittenTemp(archived_data, outcome) ==
    IF outcome = "written" THEN ReadableFile(archived_data)
    ELSE IF outcome = "damaged" THEN UnreadableFile(archived_data)
    ELSE IF outcome = "short"
    THEN ReadableFile(SubSeq(archived_data, 1, Len(archived_data) - 1))
    ELSE NoFile

\* lines 195-199: the temporary file reads back with as many records as given
TempVerified(temp, archived_data) ==
    temp.kind = "readable" /\ Len(temp.data) = Len(archived_data)

InitArchiveFile ==
    /\ archive_file = NoFile
    /\ temp_file = NoFile
    /\ quarantine = {}
    /\ file_pc = "idle"
    /\ file_call = [fn |-> "none"]
    /\ existing_archived = <<>>
    /\ appended = 0
    /\ IdleRest
    /\ flipped = {}
    /\ IdleSchedule
    /\ IdlePolicy
    /\ IdleApp
    /\ IdleNotify
    /\ IdleReport
    /\ IdleSessions

\* archive_experiments line 124: existing_archived = load_archived_experiments()
LoadArchiveFile ==
    \E rename_ok \in BOOLEAN :
        /\ file_pc = "idle"
        /\ archive_file.kind # "unreadable" => rename_ok
        /\ \E r \in {load_archived_experiments(archive_file, quarantine, rename_ok)} :
            /\ archive_file' = r.file
            /\ quarantine' = r.backups
            /\ existing_archived' = r.ret
            /\ file_call' = [fn |-> "load", before |-> archive_file, ret |-> r.ret,
                             raised |-> r.raised, rename_ok |-> rename_ok]
        /\ UNCHANGED <<temp_file, file_pc, appended>>
        /\ UNCHANGED fileOthers

\* archive_experiments lines 127-142 and save_archived_experiments lines
\* 181-192: a copy is appended to the loaded list and the save writes the
\* temporary file; an exception ends the call (lines 213-217)
SaveWrite ==
    \E outcome \in WriteOutcomes :
        /\ file_pc = "idle"
        /\ file_call.fn = "load"
        /\ appended < MaxArchived
        /\ appended' = appended + 1
        /\ temp_file' = WrittenTemp(Append(existing_archived, appended + 1), outcome)
        /\ file_pc' = IF outcome = "raised" THEN "idle" ELSE "written"
        /\ file_call' = [fn |-> "save", before |-> archive_file,
                         read |-> file_call.before,
                         archived_data |-> Append(existing_archived, appended + 1),
                         ret |-> IF outcome = "raised" THEN "False" ELSE "running"]
        /\ UNCHANGED <<archive_file, quarantine, existing_archived>>
        /\ UNCHANGED fileOthers

\* lines 195-203: the temporary file is read back and checked
SaveVerify ==
    /\ file_pc = "written"
    /\ IF TempVerified(temp_file, file_call.archived_data)
       THEN /\ file_pc' = "verified"
            /\ UNCHANGED <<temp_file, file_call>>
       ELSE /\ file_pc' = "idle"
            /\ temp_file' = NoFile
            /\ file_call' = [file_call EXCEPT !.ret = "False"]
    /\ UNCHANGED <<archive_file, quarantine, existing_archived, appended>>
    /\ UNCHANGED fileOthers

\* lines 206-207: the old archive file is removed when there is one; an
\* exception of unlink ends the call (lines 213-217)
SaveUnlink ==
    \E unlink_ok \in BOOLEAN :
        /\ file_pc = "verified"
        /\ archive_file.kind = "absent" => unlink_ok
        /\ IF unlink_ok
           THEN /\ archive_file' = NoFile
                /\ file_pc' = "unlinked"
                /\ UNCHANGED <<temp_file, file_call>>
           ELSE /\ file_pc' = "idle"
                /\ temp_file' = NoFile
                /\ file_call' = [file_call EXCEPT !.ret = "False"]
                /\ UNCHANGED archive_file
        /\ UNCHANGED <<quarantine, existing_archived, appended>>
        /\ UNCHANGED fileOthers

\* lines 208-211: the temporary file is renamed to the archive file; an
\* exception of rename ends the call (lines 213-217)
SaveRename ==
    \E rename_ok \in BOOLEAN :
        /\ file_pc = "unlinked"
        /\ archive_file' = IF rename_ok THEN temp_file ELSE archive_file
        /\ temp_file' = NoFile
        /\ file_pc' = "idle"
        /\ file_call' = [file_call EXCEPT !.ret = IF rename_ok THEN "True" ELSE "False"]
        /\ UNCHANGED <<quarantine, existing_archived, appended>>
        /\ UNCHANGED fileOthers

\* the archive file is damaged on disk between two calls
DamageArchiveFile ==
    /\ file_pc = "idle"
    /\ archive_file.kind = "readable"
    /\ archive_file' = UnreadableFile(archive_file.data)
    /\ file_call' = [fn |-> "none"]
    /\ UNCHANGED <<temp_file, quarantine, file_pc, existing_archived, appended>>
    /\ UNCHANGED fileOthers

NextArchiveFile ==
    \/ LoadArchiveFile
    \/ SaveWrite
    \/ SaveVerify
    \/ SaveUnlink
    \/ SaveRename
    \/ DamageArchiveFile

SpecArchiveFile == InitArchiveFile /\ [][NextArchiveFile]_vars

\* C11: whenever save_archived_experiments does not succeed it returns False
\* with the archive file holding exactly its previous content, and while
\* the call runs the archive file is never absent or partially written: it
\* still is the file the call found
C11_FailedSaveKeepsArchive ==
    (file_call.fn = "save" /\ file_call.ret \in {"False", "running"})
        => archive_file = file_call.before

\* C13 as stated: after load_archived_experiments found the archive file
\* unreadable it has not raised, has returned the empty list, and the file
\* has been renamed to a quarantine name
C13_Original ==
    (file_call.fn = "load" /\ file_call.before.kind = "unreadable")
        => /\ ~file_call.raised
           /\ file_call.ret = <<>>
           /\ archive_file = NoFile
           /\ file_call.before.data \in quarantine

\* C13: when the archive file is unreadable, load_archived_experiments does
\* not raise and returns the empty list; the unreadable file is renamed to
\* a quarantine name unless that rename fails, and then it stays in place;
\* the following archive operation saves the new copies only
C13_UnreadableArchiveYieldsEmpty ==
    /\ (file_call.fn = "load" /\ file_call.before.kind = "unreadable")
        => /\ ~file_call.raised
           /\ file_call.ret = <<>>
           /\ existing_archived = <<>>
           /\ IF file_call.rename_ok
              THEN archive_file = NoFile /\ file_call.before.data \in quarantine
              ELSE archive_file = file_call.before
    /\ (file_call.fn = "save" /\ file_call.read.kind = "unreadable")
        => Len(file_call.archived_data) = 1

\* an unreadable archive of one record or more was loaded and quarantined
C13_Witness ==
    /\ file_call.fn = "load"
    /\ file_call.before.kind = "unreadable"
    /\ file_call.before.data # <<>>
    /\ file_call.ret = <<>>
    /\ archive_file = NoFile
    /\ file_call.before.data \in quarantine

(***************************************************************************)
(* Failure of the archive save in the application (checked under Spec)     *)
(***************************************************************************)
\* C12: when saving to the archive store fails, the archive operation
\* reports zero archived records and the caller keeps the full live list:
\* the live list is the list from before the operation and the live store
\* is not written
C12_FailedArchiveSaveKeepsLiveList ==
    [][(lastOp'.op \in ArchiveOps /\ lastOp'.outcome # "ok")
           => /\ lastOp'.archived_count = 0
              /\ experiments' = lastOp'.before
              /\ store' = store]_vars

\* a manual archive operation of a record old enough to be archived has
\* failed to save the archive, and the record is still live and stored
C12_Witness ==
    /\ lastOp.op \in ManualArchiveOps
    /\ lastOp.outcome # "ok"
    /\ lastOp.archived_count = 0
    /\ experiments # <<>>
    /\ experiments = lastOp.before
    /\ \E i \in 1..Len(experiments) :
           /\ SelectedByLastOp(experiments[i])
           /\ should_archive_experiment(experiments[i], 0)
           /\ InStore(experiments[i])

(***************************************************************************)
(* The notification gate: _should_send_auto_notification as a function of  *)
(* the settings, the time and the scheduler's start (utils/scheduler.py)   *)
(***************************************************************************)
\* the seconds from the first instant of day 0 to a datetime
Seconds(dt) == dt.date * 86400 + dt.sec

\* the datetime that many seconds after the first instant of day 0
FromSeconds(n) == [date |-> n \div 86400, sec |-> n % 86400]

\* datetime.strptime(s, "%H:%M") raises ValueError unless s is an hour of
\* 0..23 and a minute of 0..59
ParsesAsTime(s) == s >= 0 /\ s \div 100 <= 23 /\ s % 100 <= 59

\* the second of the day of datetime.strptime(s, "%H:%M").time()
TimeOfDay(s) == (s \div 100) * 3600 + (s % 100) * 60

\* datetime.combine(current_time.date(), push_time), in seconds
PushInstant(current_time, push_time) == current_time.date * 86400 + TimeOfDay(push_time)

\* the gate with the suppression decided by the date alone
should_send_auto_notification_DateOnly(s, current_time, today_str, started) ==
    IF s.last_push_date = today_str
    THEN FALSE
    ELSE IF ~ParsesAsTime(s.push_time)
    THEN FALSE
    ELSE IF started.set /\ Seconds(current_time) - Seconds(started) < 60
    THEN FALSE
    ELSE IF Seconds(current_time) < PushInstant(current_time, s.push_time) - 30
    THEN FALSE
    ELSE IF Seconds(current_time) <= PushInstant(current_time, s.push_time) + 30
    THEN TRUE
    ELSE FALSE

\* the gate with a window that excludes its last second
should_send_auto_notification_OpenEnd(s, current_time, today_str, started) ==
    IF s.last_push_date = today_str /\ s.last_push_time = s.push_time
    THEN FALSE
    ELSE IF ~ParsesAsTime(s.push_time)
    THEN FALSE
    ELSE IF started.set /\ Seconds(current_time) - Seconds(started) < 60
    THEN FALSE
    ELSE IF Seconds(current_time) < PushInstant(current_time, s.push_time) - 30
    THEN FALSE
    ELSE IF Seconds(current_time) < PushInstant(current_time, s.push_time) + 30
    THEN TRUE
    ELSE FALSE

\* _should_send_auto_notification(settings, current_time, today_str), with
\* self.start_time as its fourth argument
should_send_auto_notification(s, current_time, today_str, started) ==
    IF s.last_push_date = today_str /\ s.last_push_time = s.push_time
    THEN FALSE
    ELSE IF ~ParsesAsTime(s.push_time)
    THEN FALSE
    ELSE IF started.set /\ Seconds(current_time) - Seconds(started) < 60
    THEN FALSE
    ELSE IF Seconds(current_time) < PushInstant(current_time, s.push_time) - 30
    THEN FALSE
    ELSE IF Seconds(current_time) <= PushInstant(current_time, s.push_time) + 30
    THEN TRUE
    ELSE FALSE

\* the value of a keyword argument, or the default when it is not passed
Arg(kwargs, k, default) == IF k \in DOMAIN kwargs THEN kwargs[k] ELSE default

\* the parameters of update_notification_settings
UpdateParams == {"enabled", "webhook_url", "push_time", "last_push_date"}

\* update_notification_settings(**kwargs) on the stored section: a keyword
\* that is no parameter raises TypeError before anything is read or saved
update_notification_settings(s, kwargs) ==
    IF ~(DOMAIN kwargs \subseteq UpdateParams)
    THEN [raised |-> TRUE, settings |-> s]
    ELSE [raised |-> FALSE,
          settings |-> [enabled        |-> Arg(kwargs, "enabled", s.enabled),
                        webhook_url    |-> Arg(kwargs, "webhook_url", s.webhook_url),
                        push_time      |-> Arg(kwargs, "push_time", s.push_time),
                        last_push_date |-> Arg(kwargs, "last_push_date", s.last_push_date),
                        last_push_time |-> s.last_push_time]]

\* the day of the push studied
PushDay == strptime(20240601)

\* the push_time values: "00:00", "08:00" and "24:60", which is no time
PushTimes == {0, 800, 2460}

\* the offsets, in seconds, of the instants studied around a push instant
WindowOffsets == {0 - 31, 0 - 30, 0, 30, 31}

\* the seconds of the day studied: around "08:00", the first seconds of the
\* day and the last seconds of the day
GateSeconds == {TimeOfDay(800) + d : d \in WindowOffsets} \cup {0, 30, 31, 86385}

\* the seconds between the scheduler's start and the instant studied
StartAges == {59, 60}

\* the start_time values for an instant: not set, or set StartAges before
StartTimes(t) ==
    {NoStartTime} \cup
    {[set |-> TRUE, date |-> FromSeconds(Seconds(t) - e).date,
      sec |-> FromSeconds(Seconds(t) - e).sec] : e \in StartAges}

\* the gate is evaluated at most MaxEvaluations times on the same inputs
MaxEvaluations == 2

\* the notification sections studied: a push recorded for the day, for the
\* day before or never, at "00:00", at "08:00" or without a time
GateSettings ==
    [enabled : {TRUE}, webhook_url : {"https://hook"}, push_time : PushTimes,
     last_push_date : {NoDateStr, strftime(PushDay), strftime(PushDay - 1)},
     last_push_time : {NoTimeStr, 0, 800}]

InitGate ==
    /\ settings \in GateSettings
    /\ now \in [date : {PushDay}, sec : GateSeconds]
    /\ start_time \in StartTimes(now)
    /\ gate = <<>>
    /\ loop = NoLoop
    /\ manual = NoManual
    /\ sends = <<>>
    /\ experiments_data = <<>>
    /\ IdleRest
    /\ flipped = {}
    /\ IdleSchedule
    /\ IdlePolicy
    /\ IdleApp
    /\ IdleFile
    /\ IdleReport
    /\ IdleSessions

\* one evaluation of the gate, as the loop of _run_scheduler makes it
EvaluateGate ==
    /\ Len(gate) < MaxEvaluations
    /\ gate' = Append(gate, [settings |-> settings, current_time |-> now,
                             value |-> should_send_auto_notification(
                                           settings, now, strftime(now.date), start_time)])
    /\ UNCHANGED <<settings, now, start_time, loop, manual, sends, experiments_data>>
    /\ UNCHANGED notifyOthers

\* the settings form saves another push_time, which st.time_input makes a
\* time of the day
SavePushTime ==
    \E t \in {p \in PushTimes : ParsesAsTime(p)} \ {settings.push_time} :
        /\ gate # <<>>
        /\ settings' = update_notification_settings(
                           settings, [enabled |-> settings.enabled,
                                      webhook_url |-> settings.webhook_url,
                                      push_time |-> t]).settings
        /\ UNCHANGED <<now, start_time, gate, loop, manual, sends, experiments_data>>
        /\ UNCHANGED notifyOthers

NextGate == EvaluateGate \/ SavePushTime

SpecGate == InitGate /\ [][NextGate]_vars

\* the push recorded in the settings is one of that day at the push_time
\* configured
AlreadySent(s, t) == s.last_push_date = strftime(t.date) /\ s.last_push_time = s.push_time

\* the instant lies within 30 seconds of that day's push_time instant
InPushWindow(s, t) ==
    /\ ParsesAsTime(s.push_time)
    /\ Seconds(t) - PushInstant(t, s.push_time) \in (0 - 30)..30

\* C14: the gate is false whenever the recorded push is of the same day and
\* of the push_time configured, at every instant of the day and on every
\* evaluation; a push recorded for the same day at another push_time does
\* not suppress: the gate then decides as it does with no push recorded
C14_SuppressedOnlyForSamePushTime ==
    \A i \in 1..Len(gate) :
        /\ AlreadySent(gate[i].settings, gate[i].current_time) => ~gate[i].value
        /\ ~AlreadySent(gate[i].settings, gate[i].current_time)
               => gate[i].value =
                      should_send_auto_notification(
                          [gate[i].settings EXCEPT !.last_push_date = NoDateStr],
                          gate[i].current_time, strftime(gate[i].current_time.date), start_time)

\* a gate suppressed by the push recorded for the day opens once another
\* push_time, whose window holds the instant, is saved
C14_Witness ==
    /\ Len(gate) = 2
    /\ AlreadySent(gate[1].settings, gate[1].current_time)
    /\ ~gate[1].value
    /\ InPushWindow(gate[2].settings, gate[2].current_time)
    /\ gate[2].settings.last_push_date = strftime(gate[2].current_time.date)
    /\ gate[2].settings.push_time # gate[1].settings.push_time
    /\ gate[2].value

\* C15: when not suppressed, the gate is false while fewer than 60 seconds
\* have passed since the scheduler's start, and otherwise true exactly when
\* the instant lies within 30 seconds, both ends included, of that day's
\* push_time instant
C15_GateIsDebouncedWindow ==
    \A i \in 1..Len(gate) :
        ~AlreadySent(gate[i].settings, gate[i].current_time)
            => gate[i].value =
                   (/\ ~(start_time.set /\ Seconds(gate[i].current_time) - Seconds(start_time) < 60)
                    /\ InPushWindow(gate[i].settings, gate[i].current_time))

\* the gate is true at the last second of the window, 60 seconds after the
\* scheduler's start
C15_Witness ==
    /\ gate # <<>>
    /\ gate[1].value
    /\ start_time.set
    /\ Seconds(gate[1].current_time) - Seconds(start_time) = 60
    /\ Seconds(gate[1].current_time) - PushInstant(gate[1].current_time, gate[1].settings.push_time) = 30

(***************************************************************************)
(* The scheduler loop and the manual send (utils/scheduler.py), over the   *)
(* settings file and a clock that advances by the polling interval         *)
(***************************************************************************)
\* the seconds of stop_event.wait at the end of an iteration
PollSeconds == 10

\* the seconds of stop_event.wait after an exception
ErrorWaitSeconds == 300

\* the clock advances at most MaxClockSteps times
MaxClockSteps == 10

\* send_manual_notification is called at most MaxManual times
MaxManual == 1

\* the first instant studied: 70 seconds before the push instant of "08:00"
FirstInstant == [date |-> PushDay, sec |-> TimeOfDay(800) - 70]

\* the lists the scheduler is started with: none, or one experiment
StartData == {<<>>, <<[exp_id |-> 1, sample_batch |-> "B1"]>>}

\* settings["enabled"] and settings["webhook_url"]
Configured(s) == s.enabled /\ s.webhook_url # ""

\* the thread waiting for its next iteration
Waiting(wake, bound, last) ==
    [pc |-> "waiting", wake |-> wake, bound |-> bound, snapshot |-> DefaultNotification,
     today_str |-> NoDateStr, last |-> last]

\* the thread inside send_daily_report, with the locals of the iteration
Sending(snapshot, today_str) ==
    [pc |-> "sending", wake |-> 0, bound |-> TRUE, snapshot |-> snapshot,
     today_str |-> today_str, last |-> "none"]

\* the lines after send_daily_report, with a push recorded after a failure
AfterAutoSend_MarkOnFailure(s, success, today_str, push_time) ==
    IF success
    THEN update_notification_settings(
             s, [last_push_date |-> today_str, last_push_time |-> push_time])
    ELSE update_notification_settings(s, [last_push_date |-> today_str])

\* the lines after send_daily_report in _run_scheduler: the push is recorded
\* by a call of update_notification_settings when the send succeeded
AfterAutoSend(s, success, today_str, push_time) ==
    IF success
    THEN update_notification_settings(
             s, [last_push_date |-> today_str, last_push_time |-> push_time])
    ELSE [raised |-> FALSE, settings |-> s]

\* the end of the iteration after send_daily_report returned: the wait of
\* the iteration, or the wait of the exception handler
AfterIteration(r, success, t) ==
    IF r.raised
    THEN Waiting(Seconds(t) + ErrorWaitSeconds, TRUE, "raised")
    ELSE Waiting(Seconds(t) + PollSeconds, TRUE, IF success THEN "sent" ELSE "failed")

\* one transmission of the daily report begun
Transmission(by, t, s) == [by |-> by, at |-> t, push_time |-> s.push_time]

InitNotify ==
    /\ settings \in {[DefaultNotification EXCEPT !.enabled = TRUE,
                                                 !.webhook_url = "https://hook"],
                      [DefaultNotification EXCEPT !.enabled = TRUE,
                                                 !.webhook_url = "https://hook",
                                                 !.last_push_date = strftime(PushDay - 1),
                                                 !.last_push_time = 800]}
    /\ now = FirstInstant
    /\ start_time = NoStartTime
    /\ gate = <<>>
    /\ loop = NoLoop
    /\ manual = NoManual
    /\ sends = <<>>
    /\ experiments_data = <<>>
    /\ IdleRest
    /\ flipped = {}
    /\ IdleSchedule
    /\ IdlePolicy
    /\ IdleApp
    /\ IdleFile
    /\ IdleReport
    /\ IdleSessions

\* time passes
AdvanceClock ==
    /\ Seconds(now) < Seconds(FirstInstant) + MaxClockSteps * PollSeconds
    /\ now' = FromSeconds(Seconds(now) + PollSeconds)
    /\ UNCHANGED <<settings, start_time, gate, loop, manual, sends, experiments_data>>
    /\ UNCHANGED notifyOthers

\* safe_start_scheduler and start: the thread is created unless the
\* notification is disabled or has no webhook
StartScheduler ==
    \E exps \in StartData :
        /\ loop.pc = "stopped"
        /\ Configured(settings)
        /\ experiments_data' = exps
        /\ start_time' = [set |-> TRUE, date |-> now.date, sec |-> now.sec]
        /\ loop' = Waiting(Seconds(now), FALSE, "none")
        /\ UNCHANGED <<settings, now, gate, manual, sends>>
        /\ UNCHANGED notifyOthers

\* an iteration of _run_scheduler up to its wait or up to the transmission
\* of send_daily_report; with no experiments send_daily_report returns True
\* without a transmission
LoopTick ==
    /\ loop.pc = "waiting"
    /\ Seconds(now) >= loop.wake
    /\ IF ~Configured(settings)
       THEN /\ loop' = IF loop.bound
                       THEN Waiting(Seconds(now) + PollSeconds, TRUE, "disabled")
                       ELSE Waiting(Seconds(now) + ErrorWaitSeconds, FALSE, "raised")
            /\ UNCHANGED <<settings, sends>>
       ELSE IF ~should_send_auto_notification(settings, now, strftime(now.date), start_time)
       THEN /\ loop' = Waiting(Seconds(now) + PollSeconds, TRUE, "idle")
            /\ UNCHANGED <<settings, sends>>
       ELSE IF experiments_data = <<>>
       THEN \E r \in {AfterAutoSend(settings, TRUE, strftime(now.date), settings.push_time)} :
                /\ settings' = r.settings
                /\ loop' = AfterIteration(r, TRUE, now)
                /\ UNCHANGED sends
       ELSE /\ loop' = Sending(settings, strftime(now.date))
            /\ sends' = Append(sends, Transmission("auto", now, settings))
            /\ UNCHANGED settings
    /\ UNCHANGED <<now, start_time, gate, manual, experiments_data>>
    /\ UNCHANGED notifyOthers

\* send_daily_report returns in the thread of _run_scheduler
LoopSendDone ==
    \E success \in BOOLEAN :
        /\ loop.pc = "sending"
        /\ \E r \in {AfterAutoSend(settings, success, loop.today_str, loop.snapshot.push_time)} :
               /\ settings' = r.settings
               /\ loop' = AfterIteration(r, success, now)
        /\ UNCHANGED <<now, start_time, gate, manual, sends, experiments_data>>
        /\ UNCHANGED notifyOthers

\* send_manual_notification up to its return or up to the transmission of
\* send_daily_report
ManualSend ==
    /\ manual.pc = "idle"
    /\ manual.count < MaxManual
    /\ IF experiments_data = <<>>
       THEN /\ manual' = [pc |-> "idle", count |-> manual.count + 1, last |-> "no data"]
            /\ UNCHANGED sends
       ELSE IF ~Configured(settings)
       THEN /\ manual' = [pc |-> "idle", count |-> manual.count + 1, last |-> "failed"]
            /\ UNCHANGED sends
       ELSE /\ manual' = [pc |-> "sending", count |-> manual.count + 1, last |-> "none"]
            /\ sends' = Append(sends, Transmission("manual", now, settings))
    /\ UNCHANGED <<settings, now, start_time, gate, loop, experiments_data>>
    /\ UNCHANGED notifyOthers

\* send_daily_report returns in send_manual_notification
ManualSendDone ==
    \E success \in BOOLEAN :
        /\ manual.pc = "sending"
        /\ manual' = [manual EXCEPT !.pc = "idle",
                                    !.last = IF success THEN "sent" ELSE "failed"]
        /\ UNCHANGED <<settings, now, start_time, gate, loop, sends, experiments_data>>
        /\ UNCHANGED notifyOthers

\* the settings form saves the checkbox and the push_time it holds
SaveSettings ==
    \E enabled \in BOOLEAN :
        /\ enabled # settings.enabled
        /\ settings' = update_notification_settings(
                           settings, [enabled |-> enabled,
                                      webhook_url |-> settings.webhook_url,
                                      push_time |-> settings.push_time]).settings
        /\ UNCHANGED <<now, start_time, gate, loop, manual, sends, experiments_data>>
        /\ UNCHANGED notifyOthers

NextNotify ==
    \/ AdvanceClock
    \/ StartScheduler
    \/ LoopTick
    \/ LoopSendDone
    \/ ManualSend
    \/ ManualSendDone
    \/ SaveSettings

SpecNotify == InitNotify /\ [][NextNotify]_vars

\* C16: an iteration of the scheduler whose send failed leaves the settings
\* file as it was: neither the step that begins the send nor the step that
\* ends it with a failure changes last_push_date or any other notification
\* setting
C16_FailedPushLeavesSettings ==
    [][/\ (loop.pc = "waiting" /\ loop'.pc = "sending") => settings' = settings
       /\ (loop.pc = "sending" /\ loop'.last = "failed") => settings' = settings]_vars

\* an automatic push in its window has failed, and no push of the day is
\* recorded
C16_Witness ==
    /\ loop.pc = "waiting"
    /\ loop.last = "failed"
    /\ \E i \in 1..Len(sends) :
           /\ sends[i].by = "auto"
           /\ InPushWindow([push_time |-> sends[i].push_time], sends[i].at)
    /\ settings.last_push_date # strftime(now.date)

\* the two transmissions began on the same day within 30 seconds of the push
\* instant of the automatic one
SameWindow(a, b) ==
    /\ a.at.date = b.at.date
    /\ InPushWindow([push_time |-> a.push_time], a.at)
    /\ InPushWindow([push_time |-> a.push_time], b.at)

\* C19: the automatic push and the manual send are serialized: they are
\* never both transmitting, and never both begin a transmission within the
\* same push window
C19_AutoAndManualSerialized ==
    /\ ~(loop.pc = "sending" /\ manual.pc = "sending")
    /\ \A i, j \in 1..Len(sends) :
           (sends[i].by = "auto" /\ sends[j].by = "manual")
               => ~SameWindow(sends[i], sends[j])

(***************************************************************************)
(* The daily report: send_daily_report and _send_daily_tasks_in_batches    *)
(* (utils/notification.py).  A task is the sample batch it belongs to and  *)
(* the length of its text; the transport accepts the k-th message sent     *)
(* unless k is in the set of rejected messages.                            *)
(***************************************************************************)
\* MAX_MESSAGE_LENGTH
MAX_MESSAGE_LENGTH == 2000

\* len(batch_content): the heading of a sample batch of a two-character name
BatchHeaderLen == 16

\* at most MaxTasks steps fall on the day of the report
MaxTasks == 4

\* a call sends at most the overview, one part per task and the completion
MaxMessages == MaxTasks + 2

\* the tasks studied: a long one and a short one of batch B1, a long one of B2
TaskKinds ==
    {[sample_batch |-> "B1", len |-> 1100], [sample_batch |-> "B1", len |-> 100],
     [sample_batch |-> "B2", len |-> 1100]}

RECURSIVE TaskLists(_)
\* the lists of at most n tasks
TaskLists(n) ==
    IF n = 0 THEN {<<>>}
    ELSE TaskLists(n - 1) \cup
         {Append(l, t) : l \in {x \in TaskLists(n - 1) : Len(x) = n - 1}, t \in TaskKinds}

RECURSIVE BatchOrder(_, _, _)
\* the keys of batch_groups in order of insertion: the sample batches in
\* order of first appearance
BatchOrder(tasks, i, seen) ==
    IF i > Len(tasks) THEN seen
    ELSE IF \E k \in 1..Len(seen) : seen[k] = tasks[i].sample_batch
    THEN BatchOrder(tasks, i + 1, seen)
    ELSE BatchOrder(tasks, i + 1, Append(seen, tasks[i].sample_batch))

\* batch_groups[batch]
TasksOfBatch(tasks, batch) == SelectSeq(tasks, LAMBDA t : t.sample_batch = batch)

\* send_markdown_message: the message is sent, and logged with its kind, its
\* label and whether the transport accepted it
Message(st, kind, label, rejected) ==
    [st EXCEPT !.sent = @ + 1,
               !.log = Append(@, [kind |-> kind, label |-> label,
                                  accepted |-> (st.sent + 1) \notin rejected])]

\* whether the message sent last was accepted
LastAccepted(st) == st.log[Len(st.log)].accepted

\* the counters after a part was sent
CountPart(st) ==
    IF LastAccepted(st)
    THEN [st EXCEPT !.success_count = @ + 1, !.batch_count = @ + 1]
    ELSE st

\* the current content is sent as the part labelled batch_count + 1
SendPart(st, rejected) == CountPart(Message(st, "part", st.batch_count + 1, rejected))

\* a task of the group is added: the current content is sent first when
\* the task would make it longer than MAX_MESSAGE_LENGTH
AddTask(st, t, rejected) ==
    IF st.current + BatchHeaderLen + t.len > MAX_MESSAGE_LENGTH
    THEN [(IF st.current > 0 THEN SendPart(st, rejected) ELSE st)
             EXCEPT !.current = BatchHeaderLen + t.len]
    ELSE [st EXCEPT !.current = @ + BatchHeaderLen + t.len]

RECURSIVE AddTasks(_, _, _, _)
\* the inner loop over the tasks of a group
AddTasks(st, ts, i, rejected) ==
    IF i > Len(ts) THEN st
    ELSE AddTasks(AddTask(st, ts[i], rejected), ts, i + 1, rejected)

\* after a group: the current content is sent when longer than 80% of
\* MAX_MESSAGE_LENGTH
AfterGroup(st, rejected) ==
    IF st.current * 10 > MAX_MESSAGE_LENGTH * 8
    THEN [SendPart(st, rejected) EXCEPT !.current = 0]
    ELSE st

RECURSIVE AddGroups(_, _, _, _, _)
\* the outer loop over batch_groups
AddGroups(st, tasks, order, g, rejected) ==
    IF g > Len(order) THEN st
    ELSE AddGroups(AfterGroup(AddTasks(st, TasksOfBatch(tasks, order[g]), 1, rejected),
                              rejected),
                   tasks, order, g + 1, rejected)

\* the last part, when content remains
LastPart(st, rejected) == IF st.current > 0 THEN SendPart(st, rejected) ELSE st

\* the completion message, sent when batch_count > 1
Completion(st, rejected) ==
    IF st.batch_count > 1 THEN Message(st, "completion", 0, rejected) ELSE st

\* the overview message and its count
Overview(st, rejected) ==
    [Message(st, "overview", 0, rejected)
        EXCEPT !.success_count = IF 1 \notin rejected THEN 1 ELSE 0]

\* the locals of _send_daily_tasks_in_batches before a message is sent
NoneSent == [current |-> 0, batch_count |-> 0, success_count |-> 0, sent |-> 0, log |-> <<>>]

\* the value returned with the messages sent
ReportResult(st, ret) == [ret |-> ret, log |-> st.log]

\* the return of the split report: success_count >= batch_count
ReportCounts(st) == ReportResult(st, st.success_count >= st.batch_count)

\* _send_daily_tasks_in_batches(title, today_tasks)
send_daily_tasks_in_batches(today_tasks, rejected) ==
    IF Len(today_tasks) <= 3
    THEN ReportResult(Message(NoneSent, "single", 0, rejected), 1 \notin rejected)
    ELSE ReportCounts(
             Completion(
                 LastPart(
                     AddGroups(Overview(NoneSent, rejected), today_tasks,
                               BatchOrder(today_tasks, 1, <<>>), 1, rejected),
                     rejected),
                 rejected))

\* send_experiment_reminder(experiments, "daily"), the steps of the day
\* being today_tasks
send_experiment_reminder(has_experiments, today_tasks, rejected) ==
    IF ~has_experiments
    THEN ReportResult(NoneSent, TRUE)
    ELSE IF today_tasks = <<>>
    THEN ReportResult(Message(NoneSent, "no tasks", 0, rejected), 1 \notin rejected)
    ELSE send_daily_tasks_in_batches(today_tasks, rejected)

\* send_daily_report(experiments); configured: create_notifier gives a
\* notifier
send_daily_report(configured, has_experiments, today_tasks, rejected) ==
    IF ~configured
    THEN ReportResult(NoneSent, FALSE)
    ELSE send_experiment_reminder(has_experiments, today_tasks, rejected)

\* the calls of send_daily_report studied
ReportCalls ==
    {[pc |-> "called", configured |-> c, has_experiments |-> e, today_tasks |-> ts,
      rejected |-> rj] :
        c \in BOOLEAN, e \in BOOLEAN,
        ts \in TaskLists(MaxTasks), rj \in SUBSET (1..MaxMessages)}

InitReport ==
    /\ report \in {r \in ReportCalls : ~r.has_experiments => r.today_tasks = <<>>}
    /\ IdleRest
    /\ flipped = {}
    /\ IdleSchedule
    /\ IdlePolicy
    /\ IdleApp
    /\ IdleFile
    /\ IdleNotify
    /\ IdleSessions

\* the call returns
SendDailyReport ==
    /\ report.pc = "called"
    /\ \E r \in {send_daily_report(report.configured, report.has_experiments,
                                   report.today_tasks, report.rejected)} :
           report' = [pc |-> "returned", configured |-> report.configured,
                      has_experiments |-> report.has_experiments,
                      today_tasks |-> report.today_tasks, rejected |-> report.rejected,
                      ret |-> r.ret, log |-> r.log]
    /\ UNCHANGED reportOthers

NextReport == SendDailyReport

SpecReport == InitReport /\ [][NextReport]_vars

\* C17: send_daily_report returns False whenever a message it sent was not
\* accepted by the transport
C17_RejectedMessageReturnsFalse ==
    (report.pc = "returned" /\ \E k \in 1..Len(report.log) : ~report.log[k].accepted)
        => ~report.ret

\* the parts of a report, in the order sent
PartsOf(log) == SelectSeq(log, LAMBDA m : m.kind = "part")

\* C18: the parts of a split report carry the labels 1, 2, ... in the order
\* sent, and the completion message is sent only after every part was
\* accepted
C18_PartsLabelledThenSummary ==
    report.pc = "returned"
        => /\ \A k \in 1..Len(PartsOf(report.log)) : PartsOf(report.log)[k].label = k
           /\ (\E k \in 1..Len(report.log) : report.log[k].kind = "completion")
                  => \A k \in 1..Len(PartsOf(report.log)) : PartsOf(report.log)[k].accepted

(***************************************************************************)
(* Several browser sessions over the one experiments file (app.py): each   *)
(* session has its own st.session_state.experiments, loaded by main() when *)
(* it is empty, and every mutation saves the session's whole list.         *)
(***************************************************************************)
\* the number of sessions
NumSessions == 2

\* main() lines 1748-1749 in a session whose list is exps; the files are
\* read and written without failure
SessionMain(exps) ==
    IF exps = <<>>
    THEN load_experiments(store, archive, "ok", TRUE)
    ELSE [data |-> exps, archived_count |-> 0,
          store |-> store, archive |-> archive,
          archive_saved |-> FALSE, store_saved |-> FALSE]

\* the list without the record at the index: experiments.pop(index)
Popped(exps, index) ==
    [i \in 1..(Len(exps) - 1) |-> IF i < index THEN exps[i] ELSE exps[i + 1]]

InitSessions ==
    /\ today = AppToday
    /\ experiments = <<>>
    /\ store = <<>>
    /\ archive = <<>>
    /\ created = 0
    /\ faults = 0
    /\ lastOp = [op |-> "init"]
    /\ sessions = [s \in 1..NumSessions |-> <<>>]
    /\ IdleRest
    /\ flipped = {}
    /\ IdleSchedule
    /\ IdlePolicy
    /\ IdleFile
    /\ IdleNotify
    /\ IdleReport

\* a session runs the script without a mutation: main() loads the list
\* when the session's list is empty
SessionRerun ==
    \E s \in 1..NumSessions :
        \E m \in {SessionMain(sessions[s])} :
            /\ sessions' = [sessions EXCEPT ![s] = m.data]
            /\ store' = m.store
            /\ archive' = m.archive
            /\ lastOp' = [op |-> "session_rerun", session |-> s]
            /\ UNCHANGED <<today, experiments, created, faults>>
            /\ UNCHANGED sessionOthers

\* a session submits the add form: add_experiment appends to the session's
\* list and saves it
SessionAdd ==
    \E s \in 1..NumSessions, choice \in AddChoices :
        /\ created < MaxCreated
        /\ \E m \in {SessionMain(sessions[s])} :
            /\ ~AddFails(m.data, choice.start_date, choice.method_name,
                        choice.manual_exp_id, choice.allow_duplicate_exp_id)
            /\ \E experiment \in {NewExperiment(m.data, choice.start_date,
                                                choice.method_name, choice.sample_batch,
                                                "", choice.manual_exp_id, created + 1)} :
                /\ sessions' = [sessions EXCEPT ![s] = Append(m.data, experiment)]
                /\ store' = save_experiments(m.store, Append(m.data, experiment), TRUE)
                /\ lastOp' = [op |-> "session_add", session |-> s, uids |-> {experiment.uid}]
            /\ archive' = m.archive
        /\ created' = created + 1
        /\ UNCHANGED <<today, experiments, faults>>
        /\ UNCHANGED sessionOthers

\* a session deletes a listed record: delete_experiment(index) pops it from
\* the session's list and saves the list
SessionDelete ==
    \E s \in 1..NumSessions :
        \E index \in 1..Len(sessions[s]) :
            /\ sessions' = [sessions EXCEPT ![s] = Popped(sessions[s], index)]
            /\ store' = save_experiments(store, Popped(sessions[s], index), TRUE)
            /\ lastOp' = [op |-> "session_delete", session |-> s,
                          uids |-> {sessions[s][index].uid}]
            /\ UNCHANGED <<today, experiments, archive, created, faults>>
            /\ UNCHANGED sessionOthers

NextSessions == SessionRerun \/ SessionAdd \/ SessionDelete

SpecSessions == InitSessions /\ [][NextSessions]_vars

\* the records of a file, by the identity given at creation
UidsOf(file) == {file[i].uid : i \in 1..Len(file)}

\* C20: the mutations of the sessions are serialized load-modify-save
\* cycles: an add or a delete of one session changes the store by its own
\* record only, so that every record another session has stored is still
\* in the store, or in the archive, afterwards
C20_ConcurrentUpdatesBothStored ==
    [][/\ lastOp'.op = "session_add"
           => /\ UidsOf(store) \subseteq UidsOf(store') \cup UidsOf(archive')
              /\ lastOp'.uids \subseteq UidsOf(store')
       /\ lastOp'.op = "session_delete"
           => UidsOf(store) \ lastOp'.uids \subseteq UidsOf(store')]_vars

(***************************************************************************)
(* The round trip through the experiments file (checked under SpecReliable)*)
(***************************************************************************)
\* the records of a list that automatic archiving leaves in the live list
NotEligible(exps) ==
    SelectSeq(exps, LAMBDA e : ~should_archive_experiment(e, DefaultThreshold))

\* C21: a list saved by save_experiments and read back by load_experiments
\* gives records equal field for field to the originals, dates included,
\* for the records not eligible for automatic archiving: when the file
\* holds what save_experiments writes for the live list, a load gives the
\* live list without its eligible records
C21_SaveLoadRoundTrip ==
    [][(lastOp'.op = "load" /\ store = save_experiments(store, experiments, TRUE))
           => experiments' = NotEligible(experiments)]_vars

\* two records were saved and loaded, one of them on a day it was eligible
\* for archiving: the other one is the live list
C21_Witness ==
    /\ lastOp.op = "load"
    /\ Len(lastOp.before) = 2
    /\ lastOp.archived_count = 1
    /\ Len(experiments) = 1
    /\ experiments[1].steps # <<>>
    /\ store = save_experiments(store, experiments, TRUE)

(***************************************************************************)
(* Rejected adds (checked under SpecReliable)                              *)
(***************************************************************************)
\* the inputs of add_experiment fail validation against the list: an
\* unknown method, a malformed start date, a number that is not positive,
\* or a number in use when duplicates are not allowed
FailsValidation(c, exps) ==
    \/ c.method_name \notin MethodNames
    \/ ~ValidDateStr(c.start_date)
    \/ c.manual_exp_id.given /\ c.manual_exp_id.value <= 0
    \/ /\ c.manual_exp_id.given
       /\ ~c.allow_duplicate_exp_id
       /\ \E i \in 1..Len(exps) : exps[i].exp_id = c.manual_exp_id.value

\* C22: an add that fails validation creates no record: a rejected add
\* leaves the live list and the store as main() gave them to the handler,
\* and an add that appends a record had inputs that pass validation
C22_RejectedAddChangesNothing ==
    [][/\ lastOp'.op = "add_rejected"
           => /\ experiments' = main("ok", TRUE).data
              /\ store' = main("ok", TRUE).store
              /\ created' = created
       /\ lastOp'.op = "add"
           => ~FailsValidation(lastOp'.choice, main("ok", TRUE).data)]_vars

\* an add was rejected with a record in the live list and in the store
C22_Witness ==
    /\ lastOp.op = "add_rejected"
    /\ Len(experiments) = 1
    /\ store = save_experiments(store, experiments, TRUE)
    /\ created = 1

(***************************************************************************)
(* Views of the experiment list: the status shown for a record (app.py),   *)
(* get_upcoming_experiments and create_daily_schedule (schedule_utils.py), *)
(* each computed once for a list and a day drawn from bounded sets.        *)
(***************************************************************************)
\* mutant: a record ending on the day counts as completed
ExperimentStatus_EndsToday(exp, day) ==
    IF exp.end_date <= day THEN "Completed"
    ELSE IF exp.start_date <= day /\ day <= exp.end_date THEN "InProgress"
    ELSE "NotStarted"

\* render_experiment_query lines 689-695 and render_experiment_list lines
\* 1141-1149: the status of a record on a day
ExperimentStatus(exp, day) ==
    IF exp.end_date < day THEN "Completed"
    ELSE IF exp.start_date <= day /\ day <= exp.end_date THEN "InProgress"
    ELSE "NotStarted"

RECURSIVE Traversal(_, _)
\* the (record, step) pairs in the order of "for exp in experiments: for
\* step in exp['steps']", from record i on
Traversal(exps, i) ==
    IF i > Len(exps) THEN <<>>
    ELSE [j \in 1..Len(exps[i].steps) |-> [exp |-> exps[i], step |-> exps[i].steps[j]]]
             \o Traversal(exps, i + 1)

\* the entry get_upcoming_experiments appends for a step
UpcomingEntry(exp, step, day) ==
    [exp_id |-> exp.exp_id, sample_batch |-> exp.sample_batch,
     method_name |-> exp.method_name, step_name |-> step.step_name,
     description |-> step.description, scheduled_date |-> step.scheduled_date,
     days_until |-> step.scheduled_date - day, notes |-> exp.notes]

\* mutant: an entry is put before the entries of its own date
InsertByDate_BeforeTies(sorted, e) ==
    LET before == SelectSeq(sorted, LAMBDA x : x.scheduled_date < e.scheduled_date)
        after == SelectSeq(sorted, LAMBDA x : x.scheduled_date >= e.scheduled_date)
    IN  before \o <<e>> \o after

\* list.sort(key=scheduled_date) is stable: an entry goes after the entries
\* before it in the list that have its date or an earlier one
InsertByDate(sorted, e) ==
    LET before == SelectSeq(sorted, LAMBDA x : x.scheduled_date <= e.scheduled_date)
        after == SelectSeq(sorted, LAMBDA x : x.scheduled_date > e.scheduled_date)
    IN  before \o <<e>> \o after

RECURSIVE SortByDate(_, _, _)
\* upcoming.sort(key=lambda x: x["scheduled_date"]), from entry i on
SortByDate(entries, i, sorted) ==
    IF i > Len(entries) THEN sorted
    ELSE SortByDate(entries, i + 1, InsertByDate(sorted, entries[i]))

\* the loop of get_upcoming_experiments over the pairs
UpcomingOf(pairs, day, target_date) ==
    LET chosen == SelectSeq(pairs, LAMBDA p : /\ p.step.scheduled_date <= target_date
                                              /\ p.step.scheduled_date >= day)
    IN  [k \in 1..Len(chosen) |-> UpcomingEntry(chosen[k].exp, chosen[k].step, day)]

\* ExperimentScheduler.get_upcoming_experiments(experiments, days_ahead)
get_upcoming_experiments(exps, days_ahead) ==
    SortByDate(UpcomingOf(Traversal(exps, 1), today, today + days_ahead), 1, <<>>)

\* the task view create_daily_schedule appends for a step
DailyTask(exp, step) ==
    [exp_id |-> exp.exp_id, sample_batch |-> exp.sample_batch,
     method_name |-> exp.method_name, step_name |-> step.step_name,
     description |-> step.description, relative_day |-> step.relative_day,
     notes |-> exp.notes, start_date |-> strftime(exp.start_date)]

\* mutant: the bucket is keyed by the date of the step before adjustment
BucketKey_Original(step) == step.original_date

\* date_key = step["date_str"]
BucketKey(step) == step.date_str

\* a task appended to the bucket of its key, the bucket created when missing
AddToBucket(daily_schedule, date_key, task) ==
    IF date_key \in DOMAIN daily_schedule
    THEN [daily_schedule EXCEPT ![date_key] = Append(@, task)]
    ELSE daily_schedule @@ (date_key :> <<task>>)

RECURSIVE FillBuckets(_, _, _)
\* the loop of create_daily_schedule over the pairs, from pair k on
FillBuckets(pairs, k, daily_schedule) ==
    IF k > Len(pairs) THEN daily_schedule
    ELSE FillBuckets(pairs, k + 1,
                     AddToBucket(daily_schedule, BucketKey(pairs[k].step),
                                 DailyTask(pairs[k].exp, pairs[k].step)))

\* ExperimentScheduler.create_daily_schedule(experiments)
create_daily_schedule(exps) == FillBuckets(Traversal(exps, 1), 1, <<>>)

\* 2024-06-06, a Thursday: the first start date of the records viewed
ViewStart == strptime(20240606)

\* the lists viewed have at most MaxViewLen records
MaxViewLen == 2

\* the views are computed on the days ViewStart - 2 .. ViewStart - 2 + ViewSpan
ViewSpan == 16

\* the records viewed: a fixed and an adjustable method, started on a
\* Thursday and on the Saturday after, numbered 1
ViewRecords ==
    {NewExperiment(<<>>, s, m, "B1", "", GivenExpId(1), 0) :
        s \in {ViewStart, ViewStart + 2}, m \in {"MTT_ISO16886", FlexibleMethod}}

RECURSIVE ViewLists(_)
\* the lists of at most n records
ViewLists(n) ==
    IF n = 0 THEN {<<>>}
    ELSE ViewLists(n - 1) \cup
         {Append(l, r) : l \in {x \in ViewLists(n - 1) : Len(x) = n - 1}, r \in ViewRecords}

\* the days_ahead arguments
DaysAhead == {0, 3, 7}

InitViews ==
    /\ flipped = {}
    /\ IdleSchedule
    /\ today \in (ViewStart - 2)..(ViewStart - 2 + ViewSpan)
    /\ experiments \in ViewLists(MaxViewLen)
    /\ store = <<>>
    /\ archive = <<>>
    /\ created = 0
    /\ faults = 0
    /\ lastOp = [op |-> "init"]
    /\ view = [fn |-> "none"]
    /\ IdlePolicy
    /\ IdleFile
    /\ IdleNotify
    /\ IdleReport
    /\ IdleSessions
    /\ IdleLife
    /\ IdleSync

\* the variables the views leave alone
viewOthers ==
    <<coreVars, fileVars, notifyVars, reportVars, sessionVars, lifeVars, syncVars>>

\* the list is rendered with the status of each record
RenderStatus ==
    /\ view.fn = "none"
    /\ view' = [fn |-> "status",
                ret |-> [i \in 1..Len(experiments) |->
                            ExperimentStatus(experiments[i], today)]]
    /\ UNCHANGED viewOthers

\* get_upcoming_experiments is called
GetUpcoming ==
    \E days_ahead \in DaysAhead :
        /\ view.fn = "none"
        /\ view' = [fn |-> "upcoming", days_ahead |-> days_ahead,
                    ret |-> get_upcoming_experiments(experiments, days_ahead)]
        /\ UNCHANGED viewOthers

\* create_daily_schedule is called
CreateDailySchedule ==
    /\ view.fn = "none"
    /\ view' = [fn |-> "daily", ret |-> create_daily_schedule(experiments)]
    /\ UNCHANGED viewOthers

NextViews == RenderStatus \/ GetUpcoming \/ CreateDailySchedule

SpecViews == InitViews /\ [][NextViews]_vars

\* C23: for every record and every day exactly one status holds:
\* Completed iff end_date < today, InProgress iff start_date <= today <=
\* end_date, NotStarted iff start_date > today
C23_StatusTrichotomy ==
    view.fn = "status"
        => \A i \in 1..Len(experiments) :
               /\ view.ret[i] = "Completed" <=> experiments[i].end_date < today
               /\ view.ret[i] = "InProgress"
                      <=> (experiments[i].start_date <= today
                           /\ today <= experiments[i].end_date)
               /\ view.ret[i] = "NotStarted" <=> experiments[i].start_date > today
               /\ view.ret[i] \in {"Completed", "InProgress", "NotStarted"}

\* a list was rendered on the day its first record ends, which is in
\* progress, while the second record is not
C23_Witness ==
    /\ view.fn = "status"
    /\ Len(experiments) = 2
    /\ experiments[1].end_date = today
    /\ view.ret[1] = "InProgress"
    /\ view.ret[2] # "InProgress"

\* every pair mapped to its entry, in traversal order
AllEntries == [k \in 1..Len(Traversal(experiments, 1)) |->
                   UpcomingEntry(Traversal(experiments, 1)[k].exp,
                                 Traversal(experiments, 1)[k].step, today)]

RECURSIVE EntriesByDay(_, _, _)
\* the entries of the days d .. last: day after day, the entries of a day
\* in the order given
EntriesByDay(entries, d, last) ==
    IF d > last THEN <<>>
    ELSE SelectSeq(entries, LAMBDA e : e.scheduled_date = d)
             \o EntriesByDay(entries, d + 1, last)

\* C24: get_upcoming_experiments returns one entry for every (record, step)
\* pair with today <= scheduled_date <= today + days_ahead and none for
\* another step, ascending by scheduled_date, the entries of one date in
\* traversal order
C24_UpcomingExactAndStable ==
    view.fn = "upcoming"
        => view.ret = EntriesByDay(AllEntries, today, today + view.days_ahead)

\* two records gave entries of the same date, and a step before the day
\* and a step after the horizon gave none
C24_Witness ==
    /\ view.fn = "upcoming"
    /\ Len(experiments) = 2
    /\ experiments[1] # experiments[2]
    /\ \E k \in 1..(Len(view.ret) - 1) :
           /\ view.ret[k].scheduled_date = view.ret[k + 1].scheduled_date
           /\ view.ret[k].method_name # view.ret[k + 1].method_name
    /\ \E k \in 1..Len(AllEntries) : AllEntries[k].scheduled_date < today
    /\ \E k \in 1..Len(AllEntries) :
           AllEntries[k].scheduled_date > today + view.days_ahead

\* the pairs of traversal whose step has the date string
PairsOfDate(key) ==
    SelectSeq(Traversal(experiments, 1), LAMBDA p : p.step.date_str = key)

\* C25: create_daily_schedule puts every step of every record in the
\* bucket keyed by its date_str and in no other: the buckets are those of
\* the date strings of the steps, each holds the task views of its steps in
\* traversal order, and together they hold as many task views as there are
\* steps
C25_EveryStepInItsBucket ==
    view.fn = "daily"
        => /\ DOMAIN view.ret
                  = {Traversal(experiments, 1)[k].step.date_str :
                         k \in 1..Len(Traversal(experiments, 1))}
           /\ \A key \in DOMAIN view.ret :
                  view.ret[key] = [k \in 1..Len(PairsOfDate(key)) |->
                                       DailyTask(PairsOfDate(key)[k].exp,
                                                 PairsOfDate(key)[k].step)]

\* two different records share a bucket, and a step moved off its original
\* date is in the bucket of the date it was moved to
C25_Witness ==
    /\ view.fn = "daily"
    /\ Len(experiments) = 2
    /\ \E key \in DOMAIN view.ret :
           /\ Len(view.ret[key]) = 2
           /\ view.ret[key][1].method_name # view.ret[key][2].method_name
    /\ \E k \in 1..Len(Traversal(experiments, 1)) :
           /\ Traversal(experiments, 1)[k].step.was_adjusted
           /\ Traversal(experiments, 1)[k].step.date_str \in DOMAIN view.ret

\* C26: an edit replaces the record at the edited index by the record
\* computed from the new inputs with the number the record had, and leaves
\* the length of the list and every other record as they were
C26_EditReplacesOneRecord ==
    [][lastOp'.op = "edit"
         => /\ Len(experiments') = Len(experiments)
            /\ \A i \in 1..Len(experiments) :
                   i # lastOp'.index => experiments'[i] = experiments[i]
            /\ experiments'[lastOp'.index].exp_id = experiments[lastOp'.index].exp_id
            /\ \A f \in DOMAIN experiments'[lastOp'.index] \ {"exp_id", "uid"} :
                   experiments'[lastOp'.index][f]
                       = calculate_experiment_schedule(
                             lastOp'.choice.start_date, lastOp'.choice.method_name,
                             lastOp'.choice.sample_batch, "", adjust_workdays)[f]]_vars

\* the first of two records numbered 1 was edited to another method and
\* start date and is stored; an added record would have got the number 2
C26_Witness ==
    /\ lastOp.op = "edit"
    /\ lastOp.index = 1
    /\ Len(experiments) = 2
    /\ experiments[1].exp_id = 1
    /\ experiments[2].exp_id = 1
    /\ experiments[1].method_name = FlexibleMethod
    /\ experiments[2].method_name = "MTT_ISO16886"
    /\ store = save_experiments(store, experiments, TRUE)

(***************************************************************************)
(* The record of a push and the pace of the loop (checked under SpecNotify)*)
(***************************************************************************)
\* the iteration that ended last had a successful send_daily_report: its
\* wait is the wait of the iteration after a recorded push, or the wait of
\* the exception handler entered after the names of the iteration were bound
PushSucceeded ==
    /\ loop.pc = "waiting"
    /\ loop.bound
    /\ loop.last \in {"sent", "raised"}

\* C27: after an automatic push has succeeded on a day, the settings hold
\* that day as last_push_date and the push time used as last_push_time
C27_SuccessfulPushRecorded ==
    PushSucceeded
        => /\ settings.last_push_date = strftime(now.date)
           /\ settings.last_push_time = settings.push_time

\* the gate is evaluated in this step: the thread is due and the
\* notification is enabled with a webhook
EvaluatesGate ==
    /\ loop.pc = "waiting"
    /\ Seconds(now) >= loop.wake
    /\ Configured(settings)

\* the instant the last automatic transmission began, the instant of the
\* gate evaluation of the iteration that is sending
LastAutoSend == sends[SetMax({i \in 1..Len(sends) : sends[i].by = "auto"})].at

\* C28: while the loop runs, the next gate evaluation comes at most 30
\* seconds after the last one: the wait an iteration ends with is over
\* within 30 seconds of the iteration's gate evaluation
C28_GateEvaluatedEvery30s ==
    [][/\ (EvaluatesGate /\ loop'.pc = "waiting" /\ loop' # loop)
              => loop'.wake - Seconds(now) <= 30
       /\ (loop.pc = "sending" /\ loop'.pc = "waiting")
              => loop'.wake - Seconds(LastAutoSend) <= 30]_vars

(***************************************************************************)
(* The life of the scheduler threads (scheduler.py): start, stop, forced   *)
(* restart and force_reset, called from handlers, and the steps of every   *)
(* thread running _run_scheduler.  A thread is at the test of its while    *)
(* loop ("top"), inside send_daily_report ("sending"), in the wait of an   *)
(* iteration ("waiting"), in the wait of the exception handler            *)
(* ("error_wait"), or has returned ("dead").  Whether the gate of an       *)
(* iteration is true depends on the clock and is left open here.           *)
(***************************************************************************)
\* at most MaxThreads threads are created
MaxThreads == 3

\* the threads that have not returned
Alive == {i \in DOMAIN threads : threads[i] # "dead"}

\* the threads inside send_daily_report
InSend == {i \in DOMAIN threads : threads[i] = "sending"}

\* NotificationScheduler.stop lines 65-76 seen from the threads: the event
\* wakes every waiting thread, which leaves its loop, and the join of at
\* most 5 seconds returns while the threads in blocked are still inside
\* send_daily_report
AfterStop(ths, blocked) ==
    [i \in DOMAIN ths |-> IF i \in blocked THEN "sending" ELSE "dead"]

\* NotificationScheduler.start lines 36-55: a new thread
Started(ths) == Append(ths, "top")

InitLifecycle ==
    /\ running = FALSE
    /\ stop_event = FALSE
    /\ threads = <<>>
    /\ settings = [DefaultNotification EXCEPT !.enabled = TRUE,
                                              !.webhook_url = "https://hook",
                                              !.last_push_date = strftime(PushDay)]
    /\ now = FirstInstant
    /\ start_time = NoStartTime
    /\ gate = <<>>
    /\ loop = NoLoop
    /\ manual = NoManual
    /\ sends = <<>>
    /\ experiments_data = <<>>
    /\ view = [fn |-> "none"]
    /\ IdleSync
    /\ flipped = {}
    /\ IdleSchedule
    /\ IdlePolicy
    /\ IdleApp
    /\ IdleFile
    /\ IdleReport
    /\ IdleSessions

\* the variables the scheduler's life leaves alone
lifeOthers ==
    <<now, gate, loop, manual, sends, coreVars, fileVars, reportVars, sessionVars, viewVars,
      scheduler_started>>

\* safe_start_scheduler reaches NotificationScheduler.start
Starts(force_restart) == ~(running /\ ~force_restart) /\ Configured(settings)

\* SchedulerManager.safe_start_scheduler(experiments, force_restart=...)
safe_start_scheduler(exps, force_restart, blocked) ==
    IF running /\ ~force_restart
    THEN UNCHANGED <<running, stop_event, threads, experiments_data, start_time>>
    ELSE IF ~Configured(settings)
    THEN /\ running' = FALSE
         /\ stop_event' = (running \/ stop_event)
         /\ threads' = IF running THEN AfterStop(threads, blocked) ELSE threads
         /\ UNCHANGED <<experiments_data, start_time>>
    ELSE /\ running' = TRUE
         /\ stop_event' = FALSE
         /\ threads' = Started(IF running THEN AfterStop(threads, blocked) ELSE threads)
         /\ experiments_data' = exps
         /\ start_time' = [set |-> TRUE, date |-> now.date, sec |-> now.sec]

\* SchedulerManager.safe_stop_scheduler()
safe_stop_scheduler(blocked) ==
    IF ~running
    THEN UNCHANGED <<running, stop_event, threads>>
    ELSE /\ running' = FALSE
         /\ stop_event' = TRUE
         /\ threads' = AfterStop(threads, blocked)

\* safe_start_scheduler is called, with or without force_restart
SafeStartScheduler ==
    \E force_restart \in BOOLEAN, blocked \in SUBSET InSend :
        /\ Len(threads) < MaxThreads
        /\ safe_start_scheduler(experiments, force_restart, blocked)
        /\ aliased' = (aliased \/ Starts(force_restart))
        /\ UNCHANGED settings
        /\ UNCHANGED lifeOthers

\* safe_stop_scheduler is called while the scheduler runs
SafeStopScheduler ==
    \E blocked \in SUBSET InSend :
        /\ running
        /\ safe_stop_scheduler(blocked)
        /\ UNCHANGED <<settings, experiments_data, start_time, aliased>>
        /\ UNCHANGED lifeOthers

\* NotificationScheduler.force_reset
ForceReset ==
    \E blocked \in SUBSET InSend :
        /\ settings' = update_notification_settings(
                           settings, [last_push_date |-> NoDateStr]).settings
        /\ running' = FALSE
        /\ stop_event' = FALSE
        /\ threads' = IF running THEN AfterStop(threads, blocked) ELSE threads
        /\ UNCHANGED <<experiments_data, start_time, aliased>>
        /\ UNCHANGED lifeOthers

\* a thread tests "self.running and not self.stop_event.is_set()" and
\* returns, or runs an iteration up to its wait or up to send_daily_report
ThreadIteration ==
    \E i \in DOMAIN threads, should_send \in BOOLEAN :
        /\ threads[i] = "top"
        /\ threads' = [threads EXCEPT ![i] =
                          IF ~(running /\ ~stop_event) THEN "dead"
                          ELSE IF Configured(settings) /\ should_send THEN "sending"
                          ELSE "waiting"]
        /\ UNCHANGED <<running, stop_event, settings, experiments_data, start_time, aliased>>
        /\ UNCHANGED lifeOthers

\* send_daily_report returns in a thread: after a success the recording call
\* raises and the thread waits in the exception handler, after a failure it
\* waits as after any iteration
ThreadSendDone ==
    \E i \in DOMAIN threads, success \in BOOLEAN :
        /\ threads[i] = "sending"
        /\ \E r \in {AfterAutoSend(settings, success, strftime(now.date),
                                  settings.push_time)} :
               /\ settings' = r.settings
               /\ threads' = [threads EXCEPT ![i] =
                                 IF r.raised THEN "error_wait" ELSE "waiting"]
        /\ UNCHANGED <<running, stop_event, experiments_data, start_time, aliased>>
        /\ UNCHANGED lifeOthers

\* "if self.stop_event.wait(10): break" ends in a thread
ThreadWaitDone ==
    \E i \in DOMAIN threads :
        /\ threads[i] = "waiting"
        /\ threads' = [threads EXCEPT ![i] = IF stop_event THEN "dead" ELSE "top"]
        /\ UNCHANGED <<running, stop_event, settings, experiments_data, start_time, aliased>>
        /\ UNCHANGED lifeOthers

\* "self.stop_event.wait(300)" of the exception handler ends in a thread
ThreadErrorWaitDone ==
    \E i \in DOMAIN threads :
        /\ threads[i] = "error_wait"
        /\ threads' = [threads EXCEPT ![i] = "top"]
        /\ UNCHANGED <<running, stop_event, settings, experiments_data, start_time, aliased>>
        /\ UNCHANGED lifeOthers

NextLifecycle ==
    \/ SafeStartScheduler
    \/ SafeStopScheduler
    \/ ForceReset
    \/ ThreadIteration
    \/ ThreadSendDone
    \/ ThreadWaitDone
    \/ ThreadErrorWaitDone

SpecLifecycle == InitLifecycle /\ [][NextLifecycle]_vars

\* the threads in the wait that ends an iteration
Polling == {i \in DOMAIN threads : threads[i] \in {"waiting", "error_wait"}}

\* C29: after any sequence of start, stop, forced restart and force_reset
\* at most one thread is alive and polling: while the scheduler runs, no
\* two threads are in the wait between two iterations of the loop
C29_AtMostOneLoopThread ==
    running => Cardinality(Polling) <= 1

(***************************************************************************)
(* The scheduler's view of the list (app.py, scheduler.py): the handlers   *)
(* of the list together with the two buttons that start and stop the       *)
(* scheduler, in runs without file failures.  The steps of the scheduler's *)
(* threads are those of SpecLifecycle and are not taken here.              *)
(***************************************************************************)
InitSync ==
    /\ today = AppToday
    /\ experiments = <<>>
    /\ store = <<>>
    /\ archive = <<>>
    /\ created = 0
    /\ faults = 0
    /\ lastOp = [op |-> "init"]
    /\ flipped = {}
    /\ IdleSchedule
    /\ IdlePolicy
    /\ IdleFile
    /\ settings = [DefaultNotification EXCEPT !.enabled = TRUE,
                                              !.webhook_url = "https://hook"]
    /\ now = FirstInstant
    /\ start_time = NoStartTime
    /\ gate = <<>>
    /\ loop = NoLoop
    /\ manual = NoManual
    /\ sends = <<>>
    /\ experiments_data = <<>>
    /\ IdleReport
    /\ IdleSessions
    /\ IdleRest

\* the variables the two buttons leave alone
buttonOthers ==
    <<today, created, faults, schedVars, polVars, fileVars, settings, now, gate, loop,
      manual, sends, reportVars, sessionVars, viewVars>>

\* render_notification_settings lines 1710-1716: the start button
StartButton ==
    \E m \in {main("ok", TRUE)} :
        /\ ~scheduler_started
        /\ Len(threads) < MaxThreads
        /\ experiments' = m.data
        /\ store' = m.store
        /\ archive' = m.archive
        /\ safe_start_scheduler(m.data, FALSE, {})
        /\ aliased' = (Starts(FALSE) \/ (aliased /\ experiments # <<>>))
        /\ scheduler_started' = TRUE
        /\ lastOp' = [op |-> "start_scheduler"]
        /\ UNCHANGED buttonOthers

\* render_notification_settings lines 1718-1725: the stop button
StopButton ==
    \E m \in {main("ok", TRUE)} :
        /\ scheduler_started
        /\ experiments' = m.data
        /\ store' = m.store
        /\ archive' = m.archive
        /\ safe_stop_scheduler({})
        /\ aliased' = (aliased /\ experiments # <<>>)
        /\ scheduler_started' = FALSE
        /\ lastOp' = [op |-> "stop_scheduler"]
        /\ UNCHANGED <<experiments_data, start_time>>
        /\ UNCHANGED buttonOthers

NextSync ==
    \/ OpenSession /\ faults' = 0
    \/ AddExperiment /\ faults' = 0
    \/ DeleteExperiment /\ faults' = 0
    \/ UpdateExperiment /\ faults' = 0
    \/ ArchiveByExpId /\ faults' = 0
    \/ ArchiveBySampleBatch /\ faults' = 0
    \/ StartButton
    \/ StopButton

SpecSync == InitSync /\ [][NextSync]_vars

\* the handlers that change the list
Mutations == {"add", "delete", "edit", "archive_by_exp_id", "archive_by_sample_batch"}

\* the step is a handler that changed the list: an add, a delete, an edit,
\* or an archive that archived a record
Mutated ==
    /\ lastOp'.op \in Mutations
    /\ lastOp'.op \in ManualArchiveOps => lastOp'.archived_count > 0

\* C30: while the session's scheduler_started flag is true, after every
\* mutation of the list (add, edit, delete, archive by exp_id, archive by
\* sample_batch) the scheduler's experiments_data holds the records of the
\* live list
C30_SchedulerSeesLiveList ==
    [][(scheduler_started /\ scheduler_started' /\ Mutated)
           => experiments_data' = experiments']_vars

====
